---- MODULE Spec2Model ----
(***************************************************************************)
(* A model of src/server.py: the Redis-backed game backend (accounts and   *)
(* gold, sessions, experience, inventory stacks, equipment and its         *)
(* enhancement, equip slots, the auction house and the administrative      *)
(* routes).                                                                *)
(*                                                                         *)
(* The store is Redis.  Every Redis command is atomic and a request        *)
(* handler is a sequence of commands, so a handler is modelled as one      *)
(* action per Redis command it issues (named <handler>_<line>), run by one *)
(* of NumThreads request threads.  The action of a handler's first         *)
(* command also parses the request and looks the bearer token up.  A Redis *)
(* hash is a function from the fields it holds to their values; a key that *)
(* does not exist is the empty hash (Redis deletes a hash with its last    *)
(* field).                                                                 *)
(*                                                                         *)
(* set_user_field, which the handlers call to write a field of a user      *)
(* hash (lines 674, 675, 1145, 1378, 1584, 1585, 1719, 1733, 1767), is     *)
(* defined nowhere in the source: each call raises NameError, the request  *)
(* ends with a 500 and the lines after the call are never reached.  The    *)
(* actions stop where the handlers do.                                     *)
(***************************************************************************)
EXTENDS Integers, Sequences, FiniteSets, TLC

(***************************************************************************)
(* Bounds of the model.                                                    *)
(***************************************************************************)
NumThreads == 2
MaxAuctions == 2
MaxAttr == 12
MaxGuard == 1

(***************************************************************************)
(* Program constants.                                                      *)
(***************************************************************************)
InitialGold == 100
ATTR_MIN == 10
ATTR_MAX == 150
PotionPrice == 20

EQUIP_SLOTS == {"weapon", "head", "body", "hands", "feet"}
RARITY_LIST == {"gray", "white", "green", "blue", "purple", "gold"}
\* RARITY_MULTIPLIER, in tenths
RARITY_MULTIPLIER ==
    [gray |-> 8, white |-> 10, green |-> 12, blue |-> 15, purple |-> 20, gold |-> 30]
SHOP_ITEMS == [potion_small |-> PotionPrice]

(***************************************************************************)
(* The finite sets the requests draw their inputs from.                    *)
(***************************************************************************)
Users == {"u1", "u2"}
Uids == {"e1", "e2"}
Items == {"potion_small"}
Threads == 1..NumThreads
AuctionIds == 1..MaxAuctions
SlotInputs == {"weapon", "head"}
TypeInputs == {"item", "equip"}
QtyInputs == {1}
\* qty of a request for a stack listing: positive, zero and negative
ItemQtyInputs == {1, 0, -1}
StartPriceInputs == {50}
\* 0 stands for a request without buyout_price (None)
BuyoutInputs == {60}
NegativeBuyoutInputs == {-200}
\* a create request without buyout_price (None, stored as "", here 0)
NoBuyoutInputs == {0}
\* bid_amount: the start price, two raises, and more than any account starts with
BidInputs == {50, 70, 80, 150}
\* qty of a shop purchase: positive and negative
ShopQtyInputs == {1, -1}
AdminAmountInputs == {150, -150}
\* growth of a successful enhancement, in hundredths: the ends of uniform(1.05, 1.12)
GrowthInputs == {105, 112}
\* the least growth alone
LeastGrowthInputs == {105}
\* n of a grant of protection tokens
GuardGrantInputs == {1}

(***************************************************************************)
(* Redis hashes.                                                           *)
(***************************************************************************)
EmptyHash == [x \in {} |-> 0]
HExists(h) == DOMAIN h # {}
HHas(h, f) == f \in DOMAIN h
HSet(h, f, v) == [x \in DOMAIN h \cup {f} |-> IF x = f THEN v ELSE h[x]]
HSetMap(h, m) == [x \in DOMAIN h \cup DOMAIN m |-> IF x \in DOMAIN m THEN m[x] ELSE h[x]]
HDel(h, f) == [x \in DOMAIN h \ {f} |-> h[x]]
HIncrBy(h, f, n) == HSet(h, f, (IF f \in DOMAIN h THEN h[f] ELSE 0) + n)
HValues(h) == {h[x] : x \in DOMAIN h}

\* A hash whose reply to hgetall the code iterates is kept as the sequence of its
\* <<field, value>> pairs in the order of that reply: a small hash keeps its fields
\* in the order of their first hset, a field that is set again keeps its place and
\* hdel closes the gap.
OFields(s) == {s[i][1] : i \in DOMAIN s}
OIndex(s, f) == CHOOSE i \in DOMAIN s : s[i][1] = f
OHash(s) == [f \in OFields(s) |-> s[OIndex(s, f)][2]]
OHSet(s, f, v) ==
    IF f \in OFields(s)
    THEN SubSeq(s, 1, OIndex(s, f) - 1) \o <<<<f, v>>>> \o SubSeq(s, OIndex(s, f) + 1, Len(s))
    ELSE Append(s, <<f, v>>)
OHDel(s, f) == SelectSeq(s, LAMBDA p : p[1] # f)

\* A sorted set is a function from its members to their scores.
ZRem(z, m) == HDel(z, m)
ZAdd(z, m, score) == HSet(z, m, score)
ZMembers(z) == DOMAIN z

\* the member ZREVRANGE returns first: the greatest score, then the greatest member
ZLast(z) ==
    CHOOSE m \in DOMAIN z :
        \A x \in DOMAIN z : z[x] < z[m] \/ (z[x] = z[m] /\ x <= m)

RECURSIVE ZRevRange(_)
\* ZREVRANGE key 0 -1: the members by descending score
ZRevRange(z) ==
    IF DOMAIN z = {} THEN <<>> ELSE <<ZLast(z)>> \o ZRevRange(HDel(z, ZLast(z)))

VARIABLES
    users,      \* user:<username> hashes (the "gold" field)
    inventory,  \* inventory:<username> hashes, item_id -> quantity
    equips,     \* equip:<username>:<uid> hashes
    slots,      \* equip_slot:<username> hashes, the pairs <<slot, uid>> in hgetall's order
    auctions,   \* auction:<aid> hashes
    openIdx,    \* the zset auction:open, auction id -> score (the time of its zadd)
    nextId,     \* auction:next_id
    powerRank,  \* the zset rank:power, username -> power
    role,       \* role:<username> hashes (base stats)
    equip_guard, \* equip_guard:<username> strings: the protection tokens, where the key exists
    session,    \* session:<username> strings: the account's session token, where the key exists
    session_meta, \* session_meta:<username> hashes
    token,      \* token:<token> strings: the username a bearer token stands for
    friends,    \* friends:<username> sets
    friend_requests, \* friend_requests:<username> sets: the accounts that have asked
    issued,     \* the uids uuid.uuid4() has returned to generate_equipment
    expiry,     \* the tokens of the logins whose keys have not expired, oldest EXEC first
    th          \* the request threads: position and locals of the handler each runs

store == <<users, inventory, equips, slots, auctions, openIdx, nextId, powerRank, role, equip_guard,
          session, session_meta, token, friends, friend_requests, issued, expiry>>
vars == <<users, inventory, equips, slots, auctions, openIdx, nextId, powerRank, role, equip_guard,
         session, session_meta, token, friends, friend_requests, issued, expiry, th>>

(***************************************************************************)
(* Request threads.                                                        *)
(***************************************************************************)
Idle ==
    [pc |-> "idle", op |-> "none", user |-> "", res |-> "", aid |-> 0,
     a |-> EmptyHash, g1 |-> 0, g2 |-> 0, price |-> 0, data |-> EmptyHash,
     args |-> EmptyHash, events |-> <<>>, score |-> 0, total |-> EmptyHash,
     todo |-> <<>>]

Begin(t) == th[t].pc \in {"idle", "done"}
Run(op, user, aid, args) ==
    [Idle EXCEPT !.pc = "run", !.op = op, !.user = user, !.aid = aid, !.args = args]
Goto(t, rec, pc) == th' = [th EXCEPT ![t] = [rec EXCEPT !.pc = pc]]
\* the handler returns (or raises): only the operation and its response are kept
Return(t, rec, res) ==
    th' = [th EXCEPT ![t] = [Idle EXCEPT !.pc = "done", !.op = rec.op, !.res = res]]
Quiescent == \A t \in Threads : th[t].pc \in {"idle", "done"}

\* Python's None where it stands for a username: f"role:{None}" is the key role:None
None == "None"

\* get_username_from_request for a request with the header "Authorization: Bearer
\* <bearer>": r.get(f"token:{bearer}"), None when the key is gone
get_username_from_request(bearer) == IF HHas(token, bearer) THEN token[bearer] ELSE None

\* the hash equip_slot:<username>, slot -> uid
equip_slot(username) == OHash(slots[username])

\* log_action: one entry appended to the stream stream:actions.  The stream only
\* grows and no handler of the model reads it: what is kept of it is events, the
\* entries the request in progress has appended, for the enhancement route and
\* delete_equipment (the entries of the other routes are left out)
log_action(rec, user, action, detail) ==
    [rec EXCEPT !.events = Append(@, [user |-> user, action |-> action, detail |-> detail])]

(***************************************************************************)
(* Accounts.                                                               *)
(***************************************************************************)
get_user(username) == users[username]

(***************************************************************************)
(* Equipment.                                                              *)
(***************************************************************************)
Attrs == {"atk", "def", "hp", "spd", "crit", "crit_dmg"}
NumericEquipFields == Attrs \cup {"enhance"}
RollInputs == {ATTR_MIN, ATTR_MAX}

\* roll(): int(random.randint(ATTR_MIN, ATTR_MAX) * multiplier), n the number drawn
roll(rarity, n) == (n * RARITY_MULTIPLIER[rarity]) \div 10

\* the hash generate_equipment writes, for the rarity and the six numbers it draws
generate_equipment(equip_type, rarity, n) ==
    [x \in {"equip_type", "rarity", "enhance"} \cup Attrs |->
        IF x = "equip_type" THEN equip_type
        ELSE IF x = "rarity" THEN rarity
        ELSE IF x = "enhance" THEN 0
        ELSE roll(rarity, n[x])]

\* None when the key does not exist; raises KeyError when a numeric field is missing
get_equipment(username, uid) ==
    LET h == equips[<<username, uid>>] IN
    IF ~HExists(h) THEN [st |-> "none", eq |-> EmptyHash]
    ELSE IF ~(NumericEquipFields \subseteq DOMAIN h) THEN [st |-> "raise", eq |-> EmptyHash]
    ELSE [st |-> "ok", eq |-> h]

delete_equipment(eqs, username, uid) == [eqs EXCEPT ![<<username, uid>>] = EmptyHash]

(***************************************************************************)
(* Stats and power.                                                        *)
(***************************************************************************)
BaseStats == [atk |-> 10, def |-> 10, hp |-> 100, spd |-> 10, crit |-> 5, crit_dmg |-> 50]

\* int(x / d) for an integer x and a positive d: Python's int() truncates toward zero
IntDiv(x, d) == IF x >= 0 THEN x \div d ELSE -((-x) \div d)

\* int(x / 2)
IntHalf(x) == IntDiv(x, 2)

RECURSIVE SumSlots(_, _, _, _)
\* the sum of one attribute over the equipment named by the slots in S
SumSlots(username, sl, S, attr) ==
    IF S = {} THEN 0
    ELSE LET s == CHOOSE x \in S : TRUE
             e == get_equipment(username, sl[s])
         IN (IF e.st = "ok" THEN e.eq[attr] ELSE 0) + SumSlots(username, sl, S \ {s}, attr)

\* the role hash after compute_final_stats' init_role, which runs when it is missing
RoleInit(username) == IF HExists(role[username]) THEN role[username] ELSE BaseStats

\* st = "raise" when the code raises KeyError (a missing stat or a partial equipment hash)
compute_final_stats(username) ==
    LET base == RoleInit(username)
        sl == equip_slot(username)
        worn == {s \in DOMAIN sl : get_equipment(username, sl[s]).st # "none"}
    IN  IF \/ \E s \in DOMAIN sl : get_equipment(username, sl[s]).st = "raise"
           \/ (worn # {} /\ ~(Attrs \subseteq DOMAIN base))
        THEN [st |-> "raise", total |-> EmptyHash]
        ELSE [st |-> "ok",
              total |-> [k \in DOMAIN base |->
                            base[k] + (IF k \in Attrs THEN SumSlots(username, sl, worn, k) ELSE 0)]]

compute_power(stats) ==
    IntHalf(4 * stats["atk"] + 3 * stats["def"] + 2 * stats["hp"] + 2 * stats["spd"]
            + 20 * stats["crit"] + 10 * stats["crit_dmg"])

(***************************************************************************)
(* compute_final_stats, one action per Redis command.  Its callers are     *)
(* update_power_rank, which the wrappers of wear, unwear and enhance call  *)
(* inside try/except once the handler has returned (then the zadd of line  *)
(* 1210; rank:weekly, which line 1213 sets to the same power, is not       *)
(* kept), and the routes GET /player/stats, GET /friend/list,              *)
(* GET /rank/friends and POST /battle/pvp, which publish nothing.  The     *)
(* request holds the account whose stats are computed in user, the stats   *)
(* read so far in total, the slots still to visit in todo and the accounts *)
(* still to compute in data.  An exception ends an update silently (the    *)
(* wrapper swallows it and returns the handler's response) and a route     *)
(* with a 500.                                                             *)
(***************************************************************************)
\* the requests whose wrapper calls update_power_rank
PowerWrapped == {"wear", "unwear", "enhance", "player_exp"}

\* the next account of the request rec: compute_final_stats starts over for it
NextAccount(rec) ==
    [rec EXCEPT !.user = Head(rec.data), !.data = Tail(rec.data),
                !.total = EmptyHash, !.todo = <<>>]

\* compute_final_stats or compute_power raises KeyError
Raised(t, rec) == Return(t, rec, IF rec.op \in PowerWrapped THEN rec.res ELSE "Error500")

\* compute_final_stats returns rec.total to its caller, which calls compute_power
\* (KeyError when one of the six stats is missing) unless it is fight_auto, which
\* goes on to the defender and then to fight
Computed(t, rec) ==
    IF rec.op = "pvp"
    THEN IF rec.data # <<>> THEN Goto(t, NextAccount(rec), "cfs_690")
         ELSE Goto(t, rec, "pvp_1141")
    ELSE IF ~(Attrs \subseteq DOMAIN rec.total) THEN Raised(t, rec)
    ELSE IF rec.op \in PowerWrapped THEN Goto(t, rec, "upr_1210")
    ELSE IF rec.op = "player_stats" THEN Return(t, rec, "ok")
    ELSE Goto(t, rec, "friends_906")

\* the pair <<slot, uid>> the loop of line 702 visits next: slots.items() yields the
\* fields in the order of hgetall's reply
NextSlot(todo) == Head(todo)

\* past the read of a slot's equipment: the next slot, or the return to the caller
AfterSlot(t, rec) ==
    IF rec.todo # <<>> THEN Goto(t, rec, "cfs_703") ELSE Computed(t, rec)

\* the view function has returned to its wrapper, which holds the response and asks
\* get_username_from_request again (lines 2043, 2063, 2072 and 2091): the username the
\* bearer token stands for now, None when the key has expired since
Wrapped(rec) ==
    [Idle EXCEPT !.op = rec.op, !.res = rec.res,
                 !.user = get_username_from_request(rec.args.bearer)]

\* base = r.hgetall(role_key(username)), for the request rec
compute_final_stats_690(t, rec) ==
    /\ UNCHANGED store
    /\ LET base == role[rec.user] IN
       IF ~HExists(base) THEN Goto(t, rec, "cfs_606")
       ELSE Goto(t, [rec EXCEPT !.total = base], "cfs_701")

\* the call of compute_final_stats by update_power_rank (line 1208) and, for the
\* next account of a route, at lines 904, 1006, 1007 and 1308
compute_final_stats_687(t) ==
    /\ th[t].pc = "cfs_690"
    /\ compute_final_stats_690(t, th[t])

\* init_role: the hset of the base stats
init_role_606(t) ==
    /\ th[t].pc = "cfs_606"
    /\ role' = [role EXCEPT ![th[t].user] = HSetMap(@, BaseStats)]
    /\ Goto(t, th[t], "cfs_693")
    /\ UNCHANGED <<users, inventory, equips, slots, auctions, openIdx, nextId, powerRank, equip_guard, session, session_meta, token, friends, friend_requests, issued, expiry>>

compute_final_stats_693(t) ==
    /\ th[t].pc = "cfs_693"
    /\ UNCHANGED store
    /\ Goto(t, [th[t] EXCEPT !.total = role[th[t].user]], "cfs_701")

\* slots = r.hgetall(equip_slot_key(username))
compute_final_stats_701(t) ==
    /\ th[t].pc = "cfs_701"
    /\ UNCHANGED store
    /\ AfterSlot(t, [th[t] EXCEPT !.todo = slots[th[t].user]])

\* get_equipment of the next slot: r.exists (line 394); a missing instance is skipped
compute_final_stats_703(t) ==
    /\ th[t].pc = "cfs_703"
    /\ UNCHANGED store
    /\ LET uid == NextSlot(th[t].todo)[2] IN
       IF HExists(equips[<<th[t].user, uid>>])
       THEN Goto(t, th[t], "cfs_396")
       ELSE AfterSlot(t, [th[t] EXCEPT !.todo = Tail(@)])

\* get_equipment of the next slot: r.hgetall (line 396) and the sums of line 708;
\* KeyError when the record lacks a numeric field or total lacks a stat
compute_final_stats_396(t) ==
    /\ th[t].pc = "cfs_396"
    /\ UNCHANGED store
    /\ LET uid == NextSlot(th[t].todo)[2]
           eq == equips[<<th[t].user, uid>>]
       IN  IF ~(NumericEquipFields \subseteq DOMAIN eq) \/ ~(Attrs \subseteq DOMAIN th[t].total)
           THEN Raised(t, th[t])
           ELSE AfterSlot(t, [th[t] EXCEPT
                                 !.todo = Tail(@),
                                 !.total = [k \in DOMAIN @ |->
                                               IF k \in Attrs THEN @[k] + eq[k] ELSE @[k]]])

\* r.zadd(POWER_RANK, {username: power}); for the username None redis-py raises
\* DataError before it sends anything (None is no member it can encode)
update_power_rank_1210(t) ==
    /\ th[t].pc = "upr_1210"
    /\ powerRank' = IF th[t].user = None THEN powerRank
                    ELSE HSet(powerRank, th[t].user, compute_power(th[t].total))
    /\ Return(t, th[t], th[t].res)
    /\ UNCHANGED <<users, inventory, equips, slots, auctions, openIdx, nextId, role, equip_guard, session, session_meta, token, friends, friend_requests, issued, expiry>>

\* the commands of update_power_rank
UpdatePowerRank(t) ==
    \/ compute_final_stats_687(t)
    \/ init_role_606(t)
    \/ compute_final_stats_693(t)
    \/ compute_final_stats_701(t)
    \/ compute_final_stats_703(t)
    \/ compute_final_stats_396(t)
    \/ update_power_rank_1210(t)

\* the same for an account whose role exists: init_role is not reached
UpdatePowerRankOfRole(t) ==
    \/ compute_final_stats_687(t)
    \/ compute_final_stats_701(t)
    \/ compute_final_stats_703(t)
    \/ compute_final_stats_396(t)
    \/ update_power_rank_1210(t)

\* the same where no slot is ever filled: get_equipment is not reached
UpdatePowerRankBare(t) ==
    \/ compute_final_stats_687(t)
    \/ init_role_606(t)
    \/ compute_final_stats_693(t)
    \/ compute_final_stats_701(t)
    \/ update_power_rank_1210(t)

(***************************************************************************)
(* GET /player/stats, and the friends of an account: POST /friend/request, *)
(* /friend/accept, /friend/reject and /friend/remove, GET /friend/list and *)
(* GET /rank/friends.                                                      *)
(***************************************************************************)
api_player_stats_735(t, username) ==
    /\ Begin(t)
    /\ compute_final_stats_690(t, Run("player_stats", username, 0, EmptyHash))

SAdd(sets, key, member) == [sets EXCEPT ![key] = @ \cup {member}]
SRem(sets, key, member) == [sets EXCEPT ![key] = @ \ {member}]

\* the checks of the target, get_user's read of it among them (every account of
\* Users is registered)
api_friend_request_792(t, username, target) ==
    /\ Begin(t)
    /\ UNCHANGED store
    /\ LET rec == Run("friend_request", username, 0, [target |-> target]) IN
       IF target = username THEN Return(t, rec, "BadTarget") ELSE Goto(t, rec, "friend_796")

api_friend_request_796(t) ==
    /\ th[t].pc = "friend_796"
    /\ UNCHANGED store
    /\ IF th[t].args.target \in friends[th[t].user]
       THEN Return(t, th[t], "AlreadyFriends")
       ELSE Goto(t, th[t], "friend_800")

\* the target has asked before: the two become friends
api_friend_request_800(t) ==
    /\ th[t].pc = "friend_800"
    /\ UNCHANGED store
    /\ IF th[t].args.target \in friend_requests[th[t].user]
       THEN Goto(t, th[t], "friend_801")
       ELSE Goto(t, th[t], "friend_809")

\* r.sadd(friends_key(username), target), at position pc (lines 801 and 841)
befriend_caller(t, pc, next) ==
    /\ th[t].pc = pc
    /\ friends' = SAdd(friends, th[t].user, th[t].args.target)
    /\ Goto(t, th[t], next)
    /\ UNCHANGED <<users, inventory, equips, slots, auctions, openIdx, nextId, powerRank, role, equip_guard, session, session_meta, token, friend_requests, issued, expiry>>

\* r.sadd(friends_key(target), username), at position pc (lines 802 and 842)
befriend_target(t, pc, next) ==
    /\ th[t].pc = pc
    /\ friends' = SAdd(friends, th[t].args.target, th[t].user)
    /\ Goto(t, th[t], next)
    /\ UNCHANGED <<users, inventory, equips, slots, auctions, openIdx, nextId, powerRank, role, equip_guard, session, session_meta, token, friend_requests, issued, expiry>>

\* r.srem(friend_requests_key(username), target), the last command of the request
\* at position pc (lines 804, 845 and 865)
drop_request(t, pc) ==
    /\ th[t].pc = pc
    /\ friend_requests' = SRem(friend_requests, th[t].user, th[t].args.target)
    /\ Return(t, th[t], "ok")
    /\ UNCHANGED <<users, inventory, equips, slots, auctions, openIdx, nextId, powerRank, role, equip_guard, session, session_meta, token, friends, issued, expiry>>

api_friend_request_801(t) == befriend_caller(t, "friend_801", "friend_802")
api_friend_request_802(t) == befriend_target(t, "friend_802", "friend_804")
api_friend_request_804(t) == drop_request(t, "friend_804")

api_friend_request_809(t) ==
    /\ th[t].pc = "friend_809"
    /\ friend_requests' = SAdd(friend_requests, th[t].args.target, th[t].user)
    /\ Return(t, th[t], "ok")
    /\ UNCHANGED <<users, inventory, equips, slots, auctions, openIdx, nextId, powerRank, role, equip_guard, session, session_meta, token, friends, issued, expiry>>

\* the sismember of line 837 (accept) or 862 (reject), route the one of the two
api_friend_answer(t, username, target, route, next) ==
    /\ Begin(t)
    /\ UNCHANGED store
    /\ LET rec == Run(route, username, 0, [target |-> target]) IN
       IF target \notin friend_requests[username]
       THEN Return(t, rec, "NoRequest")
       ELSE Goto(t, rec, next)

api_friend_accept_837(t, username, target) ==
    api_friend_answer(t, username, target, "friend_accept", "accept_841")
api_friend_accept_841(t) == befriend_caller(t, "accept_841", "accept_842")
api_friend_accept_842(t) == befriend_target(t, "accept_842", "accept_845")
api_friend_accept_845(t) == drop_request(t, "accept_845")

api_friend_reject_862(t, username, target) ==
    api_friend_answer(t, username, target, "friend_reject", "reject_865")
api_friend_reject_865(t) == drop_request(t, "reject_865")

api_friend_remove_882(t, username, target) ==
    /\ Begin(t)
    /\ UNCHANGED store
    /\ LET rec == Run("friend_remove", username, 0, [target |-> target]) IN
       IF target \notin friends[username]
       THEN Return(t, rec, "NotFriends")
       ELSE Goto(t, rec, "remove_885")

api_friend_remove_885(t) ==
    /\ th[t].pc = "remove_885"
    /\ friends' = SRem(friends, th[t].user, th[t].args.target)
    /\ Goto(t, th[t], "remove_886")
    /\ UNCHANGED <<users, inventory, equips, slots, auctions, openIdx, nextId, powerRank, role, equip_guard, session, session_meta, token, friend_requests, issued, expiry>>

api_friend_remove_886(t) ==
    /\ th[t].pc = "remove_886"
    /\ friends' = SRem(friends, th[t].args.target, th[t].user)
    /\ Return(t, th[t], "ok")
    /\ UNCHANGED <<users, inventory, equips, slots, auctions, openIdx, nextId, powerRank, role, equip_guard, session, session_meta, token, friend_requests, issued, expiry>>

\* list(r.smembers(...)): the members of S in any order
Listings(S) ==
    {fl \in [1..Cardinality(S) -> S] : \A i, j \in 1..Cardinality(S) : fl[i] = fl[j] => i = j}

\* past an account of the list: the next one, or the response
NextFriend(t, rec) ==
    IF rec.data = <<>> THEN Return(t, rec, "ok") ELSE Goto(t, NextAccount(rec), "cfs_690")

\* friend_list = list(r.smembers(friends_key(username))), friend_list the order
\* Redis returns the members in
api_friend_list_900(t, username, friend_list) ==
    /\ Begin(t)
    /\ friend_list \in Listings(friends[username])
    /\ UNCHANGED store
    /\ NextFriend(t, [Run("friend_list", username, 0, EmptyHash) EXCEPT !.data = friend_list])

\* the same for GET /rank/friends
api_rank_friends_1304(t, username, friend_list) ==
    /\ Begin(t)
    /\ friend_list \in Listings(friends[username])
    /\ UNCHANGED store
    /\ NextFriend(t, [Run("rank_friends", username, 0, EmptyHash) EXCEPT !.data = friend_list])

\* online = r.exists(session_key(f)), of either route (lines 906 and 1310): the
\* answer goes into the response only
api_friend_list_906(t) ==
    /\ th[t].pc = "friends_906"
    /\ UNCHANGED store
    /\ NextFriend(t, th[t])

(***************************************************************************)
(* POST /battle/pvp.  fight_auto computes the stats of the attacker, then  *)
(* of the defender.  What follows writes nothing the model keeps and ends  *)
(* in a 500 whoever wins: the fight raises KeyError on a missing stat, or  *)
(* calc_elo sets the elo keys (not kept) and add_exp(winner, exp_reward)   *)
(* with an exp_reward of at most 40, less than the first level takes,      *)
(* skips its loop and calls set_user_field at line 674: NameError.         *)
(***************************************************************************)
\* get_user(target): every account of Users is registered
api_battle_pvp_1126(t, username, target) ==
    /\ Begin(t)
    /\ UNCHANGED store
    /\ Goto(t, [Run("pvp", username, 0, EmptyHash) EXCEPT !.data = <<target>>], "cfs_690")

api_battle_pvp_1141(t) ==
    /\ th[t].pc = "pvp_1141"
    /\ UNCHANGED store
    /\ Return(t, th[t], "Error500")

(***************************************************************************)
(* POST /equip/wear and /equip/unwear, with their power-rank wrappers.     *)
(* get_equipment is two commands: r.exists (line 394) and r.hgetall (396). *)
(* The wrapper reads the bearer token a second time once the view function *)
(* has returned, so these requests are drawn with their token, which the   *)
(* request keeps in args.bearer: a token whose key is gone gets a 401 from *)
(* the view function, and the wrapper goes on all the same.                *)
(***************************************************************************)
\* username = get_username_from_request() of line 415: the request's first command,
\* r.get of the token's key (line 198); the check of the slot reads nothing
api_equip_wear_415(t, bearer, uid, slot) ==
    /\ Begin(t)
    /\ UNCHANGED store
    /\ LET username == get_username_from_request(bearer)
           rec == Run("wear", username, 0, [uid |-> uid, slot |-> slot, bearer |-> bearer])
       IN
       IF username = None THEN Goto(t, [rec EXCEPT !.res = "Unauthorized"], "wear_2063")
       ELSE IF slot \notin EQUIP_SLOTS THEN Goto(t, [rec EXCEPT !.res = "BadSlot"], "wear_2063")
       ELSE Goto(t, rec, "wear_426")

\* get_equipment's r.exists (line 394), for the username read at line 415
api_equip_wear_426(t) ==
    /\ th[t].pc = "wear_426"
    /\ UNCHANGED store
    /\ IF ~HExists(equips[<<th[t].user, th[t].args.uid>>])
       THEN Goto(t, [th[t] EXCEPT !.res = "NotFound"], "wear_2063")
       ELSE Goto(t, th[t], "wear_396")

\* get_equipment's hgetall and conversions: KeyError when a numeric field is missing
api_equip_wear_396(t) ==
    /\ th[t].pc = "wear_396"
    /\ UNCHANGED store
    /\ IF ~(NumericEquipFields \subseteq DOMAIN equips[<<th[t].user, th[t].args.uid>>])
       THEN Return(t, th[t], "Error500")
       ELSE Goto(t, th[t], "wear_431")

api_equip_wear_431(t) ==
    /\ th[t].pc = "wear_431"
    /\ slots' = [slots EXCEPT ![th[t].user] = OHSet(@, th[t].args.slot, th[t].args.uid)]
    /\ Goto(t, [th[t] EXCEPT !.res = "ok"], "wear_2063")
    /\ UNCHANGED <<users, inventory, equips, auctions, openIdx, nextId, powerRank, role, equip_guard, session, session_meta, token, friends, friend_requests, issued, expiry>>

\* username = get_username_from_request() of line 2063; update_power_rank is called
\* with whatever it returns, None too
wrapped_wear_2063(t) ==
    /\ th[t].pc = "wear_2063"
    /\ UNCHANGED store
    /\ Goto(t, Wrapped(th[t]), "cfs_690")

\* username = get_username_from_request() of line 439: r.get of the token's key
api_equip_unwear_439(t, bearer, slot) ==
    /\ Begin(t)
    /\ UNCHANGED store
    /\ LET username == get_username_from_request(bearer)
           rec == Run("unwear", username, 0, [slot |-> slot, bearer |-> bearer])
       IN
       IF username = None THEN Goto(t, [rec EXCEPT !.res = "Unauthorized"], "unwear_2072")
       ELSE IF slot \notin EQUIP_SLOTS
       THEN Goto(t, [rec EXCEPT !.res = "BadSlot"], "unwear_2072")
       ELSE Goto(t, rec, "unwear_449")

\* r.hdel(equip_slot_key(username), slot), for the username read at line 439
api_equip_unwear_449(t) ==
    /\ th[t].pc = "unwear_449"
    /\ slots' = [slots EXCEPT ![th[t].user] = OHDel(@, th[t].args.slot)]
    /\ Goto(t, [th[t] EXCEPT !.res = "ok"], "unwear_2072")
    /\ UNCHANGED <<users, inventory, equips, auctions, openIdx, nextId, powerRank, role, equip_guard, session, session_meta, token, friends, friend_requests, issued, expiry>>

\* username = get_username_from_request() of line 2072
wrapped_unwear_2072(t) ==
    /\ th[t].pc = "unwear_2072"
    /\ UNCHANGED store
    /\ Goto(t, Wrapped(th[t]), "cfs_690")

(***************************************************************************)
(* POST /shop/buy.                                                         *)
(***************************************************************************)
api_shop_buy_1373(t, username, item_id, qty) ==
    /\ Begin(t)
    /\ UNCHANGED store
    /\ LET rec == Run("shop_buy", username, 0, [item_id |-> item_id, qty |-> qty])
           cost == SHOP_ITEMS[item_id] * qty
           player == get_user(username)
       IN  IF player["gold"] < cost THEN Return(t, rec, "NoFunds")
           ELSE Goto(t, [rec EXCEPT !.g1 = player["gold"], !.price = cost], "shop_1378")

\* set_user_field(username, "gold", ...): NameError, nothing is written and the
\* hincrby of line 1381 is never reached
api_shop_buy_1378(t) ==
    /\ th[t].pc = "shop_1378"
    /\ UNCHANGED store
    /\ Return(t, th[t], "Error500")

(***************************************************************************)
(* The auction house.                                                      *)
(***************************************************************************)
next_auction_id == nextId + 1

\* the listing query: the open index most recent first, keys that do not exist skipped
list_open_auctions ==
    SelectSeq(ZRevRange(openIdx), LAMBDA aid : HExists(auctions[aid]))

\* the hash api_auction_create stores; buyout_price "" (here 0) when None or 0
AuctionRecord(aid, username, args) ==
    [auction_id |-> aid, seller |-> username, type |-> args.type,
     item_id |-> args.item_id, uid |-> args.uid, qty |-> args.qty,
     start_price |-> args.start_price, current_price |-> args.start_price,
     current_bidder |-> "", buyout_price |-> args.buyout_price, status |-> "open"]

(***************************************************************************)
(* POST /auction/create.  MaxAuctions bounds the ids handed out: a create  *)
(* is admitted only while the ids already taken and those the creates in   *)
(* flight will take leave one.                                             *)
(***************************************************************************)
CreatesInFlight ==
    Cardinality({x \in Threads :
        th[x].pc \in {"create_1466", "create_396", "create_1477", "create_1482", "create_1490"}})

api_auction_create_1454(t, username, item_type, item_id, uid, qty, start_price, buyout_price) ==
    /\ Begin(t)
    /\ nextId + CreatesInFlight < MaxAuctions
    /\ UNCHANGED store
    /\ LET rec == Run("create", username, 0,
                      [type |-> item_type, item_id |-> item_id, uid |-> uid, qty |-> qty,
                       start_price |-> start_price, buyout_price |-> buyout_price])
           inv == inventory[username]
       IN  IF start_price <= 0 THEN Return(t, rec, "BadPrice")
           ELSE IF item_type = "item"
           THEN IF ~HHas(inv, item_id) \/ inv[item_id] < qty
                THEN Return(t, rec, "NoStock")
                ELSE Goto(t, rec, "create_1466")
           ELSE IF item_type = "equip"
           \* get_equipment's r.exists (line 394)
           THEN IF ~HExists(equips[<<username, uid>>])
                THEN Return(t, rec, "NotFound")
                ELSE Goto(t, rec, "create_396")
           ELSE Return(t, rec, "BadType")

\* get_equipment's hgetall and conversions: KeyError when a numeric field is missing
api_auction_create_396(t) ==
    /\ th[t].pc = "create_396"
    /\ UNCHANGED store
    /\ IF ~(NumericEquipFields \subseteq DOMAIN equips[<<th[t].user, th[t].args.uid>>])
       THEN Return(t, th[t], "Error500")
       ELSE Goto(t, th[t], "create_1477")

\* the escrow of a stack; no account holds a stack, so no request gets here
api_auction_create_1466(t) ==
    /\ th[t].pc = "create_1466"
    /\ inventory' = [inventory EXCEPT ![th[t].user] = HIncrBy(@, th[t].args.item_id, -th[t].args.qty)]
    /\ Goto(t, th[t], "create_1490")
    /\ UNCHANGED <<users, equips, slots, auctions, openIdx, nextId, powerRank, role, equip_guard, session, session_meta, token, friends, friend_requests, issued, expiry>>

api_auction_create_1477(t) ==
    /\ th[t].pc = "create_1477"
    /\ UNCHANGED store
    /\ IF th[t].args.uid \in HValues(equip_slot(th[t].user))
       THEN Return(t, th[t], "Worn")
       ELSE Goto(t, th[t], "create_1482")

api_auction_create_1482(t) ==
    /\ th[t].pc = "create_1482"
    /\ equips' = [equips EXCEPT ![<<th[t].user, th[t].args.uid>>] = HSet(@, "locked", 1)]
    /\ Goto(t, th[t], "create_1490")
    /\ UNCHANGED <<users, inventory, slots, auctions, openIdx, nextId, powerRank, role, equip_guard, session, session_meta, token, friends, friend_requests, issued, expiry>>

\* api_auction_create_1490 taking the id after the counter without advancing it
api_auction_create_1490_reuse(t) ==
    /\ th[t].pc = "create_1490"
    /\ Goto(t, [th[t] EXCEPT !.aid = next_auction_id], "create_1508")
    /\ UNCHANGED store

api_auction_create_1490(t) ==
    /\ th[t].pc = "create_1490"
    /\ nextId' = next_auction_id
    /\ Goto(t, [th[t] EXCEPT !.aid = next_auction_id], "create_1508")
    /\ UNCHANGED <<users, inventory, equips, slots, auctions, openIdx, powerRank, role, equip_guard, session, session_meta, token, friends, friend_requests, issued, expiry>>

api_auction_create_1508(t) ==
    /\ th[t].pc = "create_1508"
    /\ auctions' = [auctions EXCEPT ![th[t].aid] =
                        HSetMap(@, AuctionRecord(th[t].aid, th[t].user, th[t].args))]
    /\ Goto(t, th[t], "create_1509_time")
    /\ UNCHANGED <<users, inventory, equips, slots, openIdx, nextId, powerRank, role, equip_guard, session, session_meta, token, friends, friend_requests, issued, expiry>>

\* time.time(): only the order of the readings matters, so the clock is the count of
\* the readings so far; a reading is later than every score in the index and every
\* reading a request in progress holds
time_time ==
    LET held == {openIdx[m] : m \in DOMAIN openIdx} \cup {th[x].score : x \in Threads}
    IN  1 + (CHOOSE n \in held \cup {0} : \A k \in held \cup {0} : k <= n)

\* the argument of the zadd is evaluated before the command is sent
api_auction_create_1509_time(t) ==
    /\ th[t].pc = "create_1509_time"
    /\ UNCHANGED store
    /\ Goto(t, [th[t] EXCEPT !.score = time_time], "create_1509")

api_auction_create_1509(t) ==
    /\ th[t].pc = "create_1509"
    /\ openIdx' = ZAdd(openIdx, th[t].aid, th[t].score)
    /\ Return(t, th[t], "ok")
    /\ UNCHANGED <<users, inventory, equips, slots, auctions, nextId, powerRank, role, equip_guard, session, session_meta, token, friends, friend_requests, issued, expiry>>

(***************************************************************************)
(* POST /auction/bid.                                                      *)
(***************************************************************************)
api_auction_bid_1530(t, username, aid, bid_amount) ==
    /\ Begin(t)
    /\ UNCHANGED store
    /\ LET rec == Run("bid", username, aid, [amount |-> bid_amount])
           a == auctions[aid]
       IN  IF ~HExists(a) THEN Return(t, rec, "NotFound")
           ELSE IF ~HHas(a, "status") THEN Return(t, rec, "Error500")
           ELSE IF a["status"] # "open" THEN Return(t, rec, "Closed")
           ELSE IF ~HHas(a, "seller") THEN Return(t, rec, "Error500")
           ELSE IF a["seller"] = username THEN Return(t, rec, "OwnAuction")
           ELSE IF ~HHas(a, "current_price") THEN Return(t, rec, "Error500")
           ELSE IF bid_amount <= a["current_price"] THEN Return(t, rec, "BidTooLow")
           ELSE Goto(t, [rec EXCEPT !.a = a], "bid_1540")

\* api_auction_bid_1540 without its balance check
api_auction_bid_1540_unchecked(t) ==
    /\ th[t].pc = "bid_1540"
    /\ UNCHANGED store
    /\ Goto(t, [th[t] EXCEPT !.g1 = get_user(th[t].user)["gold"]], "bid_1545")

api_auction_bid_1540(t) ==
    /\ th[t].pc = "bid_1540"
    /\ UNCHANGED store
    /\ LET user == get_user(th[t].user) IN
       IF user["gold"] < th[t].args.amount
       THEN Return(t, th[t], "NoFunds")
       ELSE Goto(t, [th[t] EXCEPT !.g1 = user["gold"]], "bid_1545")

\* api_auction_bid_1545 holding the bid amount back from the bidder's gold
api_auction_bid_1545_escrow(t) ==
    /\ th[t].pc = "bid_1545"
    /\ auctions' = [auctions EXCEPT ![th[t].aid] = HSet(@, "current_price", th[t].args.amount)]
    /\ users' = [users EXCEPT ![th[t].user] = HSet(@, "gold", th[t].g1 - th[t].args.amount)]
    /\ Goto(t, th[t], "bid_1546")
    /\ UNCHANGED <<inventory, equips, slots, openIdx, nextId, powerRank, role, equip_guard, session, session_meta, token, friends, friend_requests, issued, expiry>>

api_auction_bid_1545(t) ==
    /\ th[t].pc = "bid_1545"
    /\ auctions' = [auctions EXCEPT ![th[t].aid] = HSet(@, "current_price", th[t].args.amount)]
    /\ Goto(t, th[t], "bid_1546")
    /\ UNCHANGED <<users, inventory, equips, slots, openIdx, nextId, powerRank, role, equip_guard, session, session_meta, token, friends, friend_requests, issued, expiry>>

api_auction_bid_1546(t) ==
    /\ th[t].pc = "bid_1546"
    /\ auctions' = [auctions EXCEPT ![th[t].aid] = HSet(@, "current_bidder", th[t].user)]
    /\ Return(t, th[t], "ok")
    /\ UNCHANGED <<users, inventory, equips, slots, openIdx, nextId, powerRank, role, equip_guard, session, session_meta, token, friends, friend_requests, issued, expiry>>

(***************************************************************************)
(* POST /auction/buy.                                                      *)
(***************************************************************************)
\* int(a["buyout_price"] or a["current_price"])
SettlementPrice(a) == IF a["buyout_price"] # 0 THEN a["buyout_price"] ELSE a["current_price"]

\* the fields line 1575 reads: current_price only when buyout_price is empty
PriceReadable(a) ==
    /\ HHas(a, "buyout_price")
    /\ a["buyout_price"] = 0 => HHas(a, "current_price")

api_auction_buy_1565(t, username, aid) ==
    /\ Begin(t)
    /\ UNCHANGED store
    /\ LET rec == Run("buy", username, aid, EmptyHash)
           a == auctions[aid]
       IN  IF ~HExists(a) THEN Return(t, rec, "NotFound")
           ELSE IF ~HHas(a, "status") THEN Return(t, rec, "Error500")
           ELSE IF a["status"] # "open" THEN Return(t, rec, "Closed")
           ELSE IF ~HHas(a, "seller") THEN Return(t, rec, "Error500")
           ELSE IF a["seller"] = username THEN Return(t, rec, "OwnAuction")
           ELSE IF ~PriceReadable(a) THEN Return(t, rec, "Error500")
           ELSE Goto(t, [rec EXCEPT !.a = a, !.price = SettlementPrice(a)], "buy_1577")

api_auction_buy_1577(t) ==
    /\ th[t].pc = "buy_1577"
    /\ UNCHANGED store
    /\ Goto(t, [th[t] EXCEPT !.g1 = get_user(th[t].user)["gold"]], "buy_1578")

api_auction_buy_1578(t) ==
    /\ th[t].pc = "buy_1578"
    /\ UNCHANGED store
    /\ LET seller == get_user(th[t].a["seller"]) IN
       IF th[t].g1 < th[t].price
       THEN Return(t, th[t], "NoFunds")
       ELSE Goto(t, [th[t] EXCEPT !.g2 = seller["gold"]], "buy_1584")

\* api_auction_buy_1584 with the writes of a settlement: the gold moves, the stack
\* or the instance goes to the buyer and the listing is marked sold
api_auction_buy_1584_settles(t) ==
    /\ th[t].pc = "buy_1584"
    /\ users' = [users EXCEPT ![th[t].user] = HSet(@, "gold", th[t].g1 - th[t].price),
                               ![th[t].a["seller"]] = HSet(@, "gold", th[t].g2 + th[t].price)]
    /\ inventory' = IF HHas(th[t].a, "type") /\ th[t].a["type"] = "item"
                    THEN [inventory EXCEPT ![th[t].user] =
                             HIncrBy(@, th[t].a["item_id"], th[t].a["qty"])]
                    ELSE inventory
    /\ equips' = IF HHas(th[t].a, "type") /\ th[t].a["type"] = "item"
                 THEN equips
                 ELSE [equips EXCEPT
                          ![<<th[t].a["seller"], th[t].a["uid"]>>] = EmptyHash,
                          ![<<th[t].user, th[t].a["uid"]>>] =
                              HDel(equips[<<th[t].a["seller"], th[t].a["uid"]>>], "locked")]
    /\ auctions' = [auctions EXCEPT ![th[t].aid] = HSet(@, "status", "sold")]
    /\ Return(t, th[t], "ok")
    /\ UNCHANGED <<slots, openIdx, nextId, powerRank, role, equip_guard, session, session_meta, token, friends, friend_requests, issued, expiry>>

\* set_user_field(username, "gold", ...): NameError; the buyer is not debited and
\* lines 1585 to 1616 (the credit, the delivery, the sold status, the zrem) are
\* never reached
api_auction_buy_1584(t) ==
    /\ th[t].pc = "buy_1584"
    /\ UNCHANGED store
    /\ Return(t, th[t], "Error500")

(***************************************************************************)
(* POST /auction/cancel.  The request carries one bearer token: a session  *)
(* token, which names the user, is no root token, so is_root is False.     *)
(***************************************************************************)
\* the fields lines 1646 to 1649 read: type, then item_id and qty of a stack or
\* uid of an equipment
RefundReadable(a) ==
    /\ HHas(a, "type")
    /\ IF a["type"] = "item" THEN {"item_id", "qty"} \subseteq DOMAIN a ELSE HHas(a, "uid")

\* api_auction_cancel_1633 without its check of the caller
api_auction_cancel_1633_anyone(t, username, aid) ==
    /\ Begin(t)
    /\ UNCHANGED store
    /\ LET rec == Run("cancel", username, aid, EmptyHash)
           a == auctions[aid]
       IN  IF ~HExists(a) THEN Return(t, rec, "NotFound")
           ELSE IF ~HHas(a, "status") THEN Return(t, rec, "Error500")
           ELSE IF a["status"] # "open" THEN Return(t, rec, "Closed")
           ELSE IF ~RefundReadable(a) THEN Return(t, rec, "Error500")
           ELSE Goto(t, [rec EXCEPT !.a = a], "cancel_1646")

api_auction_cancel_1633(t, username, aid) ==
    /\ Begin(t)
    /\ UNCHANGED store
    /\ LET rec == Run("cancel", username, aid, EmptyHash)
           a == auctions[aid]
           is_root == FALSE
       IN  IF ~HExists(a) THEN Return(t, rec, "NotFound")
           ELSE IF ~HHas(a, "seller") THEN Return(t, rec, "Error500")
           ELSE IF username # a["seller"] /\ ~is_root THEN Return(t, rec, "Forbidden")
           ELSE IF ~HHas(a, "status") THEN Return(t, rec, "Error500")
           ELSE IF a["status"] # "open" THEN Return(t, rec, "Closed")
           ELSE IF ~RefundReadable(a) THEN Return(t, rec, "Error500")
           ELSE Goto(t, [rec EXCEPT !.a = a], "cancel_1646")

\* api_auction_cancel_1646 without the hdel of the instance's lock
api_auction_cancel_1646_keeps_lock(t) ==
    /\ th[t].pc = "cancel_1646"
    /\ LET a == th[t].a IN
       IF a["type"] = "item"
       THEN inventory' = [inventory EXCEPT ![a["seller"]] = HIncrBy(@, a["item_id"], a["qty"])]
       ELSE UNCHANGED inventory
    /\ Goto(t, th[t], "cancel_1652")
    /\ UNCHANGED <<users, equips, slots, auctions, openIdx, nextId, powerRank, role, equip_guard, session, session_meta, token, friends, friend_requests, issued, expiry>>

api_auction_cancel_1646(t) ==
    /\ th[t].pc = "cancel_1646"
    /\ LET a == th[t].a IN
       IF a["type"] = "item"
       THEN /\ inventory' = [inventory EXCEPT ![a["seller"]] = HIncrBy(@, a["item_id"], a["qty"])]
            /\ UNCHANGED equips
       ELSE /\ equips' = [equips EXCEPT ![<<a["seller"], a["uid"]>>] = HDel(@, "locked")]
            /\ UNCHANGED inventory
    /\ Goto(t, th[t], "cancel_1652")
    /\ UNCHANGED <<users, slots, auctions, openIdx, nextId, powerRank, role, equip_guard, session, session_meta, token, friends, friend_requests, issued, expiry>>

api_auction_cancel_1652(t) ==
    /\ th[t].pc = "cancel_1652"
    /\ auctions' = [auctions EXCEPT ![th[t].aid] = EmptyHash]
    /\ Goto(t, th[t], "cancel_1653")
    /\ UNCHANGED <<users, inventory, equips, slots, openIdx, nextId, powerRank, role, equip_guard, session, session_meta, token, friends, friend_requests, issued, expiry>>

api_auction_cancel_1653(t) ==
    /\ th[t].pc = "cancel_1653"
    /\ openIdx' = ZRem(openIdx, th[t].aid)
    /\ Return(t, th[t], "ok")
    /\ UNCHANGED <<users, inventory, equips, slots, auctions, nextId, powerRank, role, equip_guard, session, session_meta, token, friends, friend_requests, issued, expiry>>

(***************************************************************************)
(* POST /admin/gold/<target>, by an administrator.                         *)
(***************************************************************************)
Max(x, y) == IF x >= y THEN x ELSE y

\* new_gold = max(0, user["gold"] + amount)
AdminNewGold(g, amount) == Max(0, g + amount)

api_admin_gold_1762(t, target, amount) ==
    /\ Begin(t)
    /\ UNCHANGED store
    /\ LET rec == Run("admin_gold", target, 0, [amount |-> amount])
           user == get_user(target)
       IN  Goto(t, [rec EXCEPT !.g1 = user["gold"], !.price = AdminNewGold(user["gold"], amount)],
                "admin_gold_1767")

\* set_user_field(target, "gold", new_gold): NameError, the balance is not written
api_admin_gold_1767(t) ==
    /\ th[t].pc = "admin_gold_1767"
    /\ UNCHANGED store
    /\ Return(t, th[t], "Error500")

(***************************************************************************)
(* POST /admin/auction/remove/<aid>, by root.                              *)
(***************************************************************************)
api_admin_auction_remove_1885(t, aid) ==
    /\ Begin(t)
    /\ UNCHANGED store
    /\ LET rec == Run("admin_remove", "root", aid, EmptyHash)
           a == auctions[aid]
       IN  IF ~HExists(a) THEN Return(t, rec, "NotFound")
           ELSE IF ~({"seller", "type"} \subseteq DOMAIN a) THEN Return(t, rec, "Error500")
           \* equip_key(seller) lacks its uid argument: TypeError
           ELSE IF a["type"] # "item" THEN Return(t, rec, "Error500")
           ELSE IF ~({"item_id", "qty"} \subseteq DOMAIN a) THEN Return(t, rec, "Error500")
           ELSE Goto(t, [rec EXCEPT !.a = a], "admin_remove_1893")

\* the return of a stack listing's escrow; no listing is a stack listing, so no
\* request gets to this command or to the two after it
api_admin_auction_remove_1893(t) ==
    /\ th[t].pc = "admin_remove_1893"
    /\ LET a == th[t].a IN
       inventory' = [inventory EXCEPT ![a["seller"]] = HIncrBy(@, a["item_id"], a["qty"])]
    /\ Goto(t, th[t], "admin_remove_1898")
    /\ UNCHANGED <<users, equips, slots, auctions, openIdx, nextId, powerRank, role, equip_guard, session, session_meta, token, friends, friend_requests, issued, expiry>>

api_admin_auction_remove_1898(t) ==
    /\ th[t].pc = "admin_remove_1898"
    /\ auctions' = [auctions EXCEPT ![th[t].aid] = EmptyHash]
    /\ Goto(t, th[t], "admin_remove_1899")
    /\ UNCHANGED <<users, inventory, equips, slots, openIdx, nextId, powerRank, role, equip_guard, session, session_meta, token, friends, friend_requests, issued, expiry>>

api_admin_auction_remove_1899(t) ==
    /\ th[t].pc = "admin_remove_1899"
    /\ openIdx' = ZRem(openIdx, th[t].aid)
    /\ Return(t, th[t], "ok")
    /\ UNCHANGED <<users, inventory, equips, slots, auctions, nextId, powerRank, role, equip_guard, session, session_meta, token, friends, friend_requests, issued, expiry>>

(***************************************************************************)
(* POST /equip/enhance, with its power-rank wrapper, and the root's grant  *)
(* of protection tokens.                                                   *)
(***************************************************************************)
\* the level at which api_equip_enhance refuses
MaxLevel == 20
\* from this level on a protection token applies
GuardLevel == 16

\* (fail_type, fail_value) for the level the attempt read
\* enhance_fail_result with the first boundary one level up
enhance_fail_result_shifted(level) ==
    IF level <= 6 THEN [type |-> "no_drop", value |-> 0]
    ELSE IF level <= 10 THEN [type |-> "drop", value |-> -1]
    ELSE IF level <= 15 THEN [type |-> "drop", value |-> -2]
    ELSE IF level <= 18 THEN [type |-> "reset", value |-> 0]
    ELSE [type |-> "explode", value |-> 0]

enhance_fail_result(level) ==
    IF level <= 5 THEN [type |-> "no_drop", value |-> 0]
    ELSE IF level <= 10 THEN [type |-> "drop", value |-> -1]
    ELSE IF level <= 15 THEN [type |-> "drop", value |-> -2]
    ELSE IF level <= 18 THEN [type |-> "reset", value |-> 0]
    ELSE [type |-> "explode", value |-> 0]

\* the failure outcome after the protection token: a reset or an explosion under an
\* active guard from GuardLevel on becomes a drop of one
FailOutcome(lv, guard_active) ==
    LET f == enhance_fail_result(lv) IN
    IF guard_active /\ lv >= GuardLevel /\ f.type \in {"explode", "reset"}
    THEN [type |-> "drop", value |-> -1]
    ELSE f

\* new_attr of a success: the level plus one, each attribute int(attr * growth),
\* growth in hundredths: a negative attribute (an administrative edit stores any
\* integer) is rounded toward zero
\* new_attr raising the level by two
new_attr_jump(eq, growth) ==
    [x \in NumericEquipFields |->
        IF x = "enhance" THEN eq["enhance"] + 2 ELSE IntDiv(eq[x] * growth, 100)]

new_attr(eq, growth) ==
    [x \in NumericEquipFields |->
        IF x = "enhance" THEN eq["enhance"] + 1 ELSE IntDiv(eq[x] * growth, 100)]

\* MaxAttr and MaxGuard bound the attributes and the token count: an attempt is
\* admitted while the instance's attributes are at most MaxAttr and the caller's
\* count is within -MaxGuard..MaxGuard
AttrsInBounds(username, uid) ==
    \A x \in Attrs : HHas(equips[<<username, uid>>], x) => equips[<<username, uid>>][x] <= MaxAttr

GuardInBounds(username) ==
    HHas(equip_guard, username) => equip_guard[username] \in (0 - MaxGuard)..MaxGuard

\* the entry of a failure that does not destroy the instance (lines 560-565)
log_enhance_fail(rec, new_lv, fail_type) ==
    log_action(rec, rec.user, "enhance_fail",
               [uid |-> rec.args.uid, old_level |-> rec.a["enhance"],
                new_level |-> new_lv, fail_type |-> fail_type])

\* where the attempt goes once the token is dealt with
EnhanceOutcomePc(rec, guard_active) ==
    IF rec.args.success THEN "enhance_531"
    ELSE LET f == FailOutcome(rec.a["enhance"], guard_active) IN
         IF f.type = "no_drop" THEN "enhance_2043"
         ELSE IF f.type = "drop" THEN "enhance_552"
         ELSE IF f.type = "reset" THEN "enhance_555"
         ELSE "enhance_557"

\* a failure that leaves the level (no_drop) issues no write to the instance: the
\* attempt goes on to its entry in the stream
EnhanceOutcomeRec(rec, guard_active) ==
    IF EnhanceOutcomePc(rec, guard_active) = "enhance_2043" /\ ~rec.args.success
    THEN log_enhance_fail(rec, rec.a["enhance"], "no_drop")
    ELSE rec

\* username = get_username_from_request() of line 483: r.get of the token's key;
\* random.random() of line 501 and random.uniform of line 520 read nothing of the
\* store and are drawn here
api_equip_enhance_483(t, bearer, uid, use_guard, success, growth) ==
    /\ Begin(t)
    /\ UNCHANGED store
    /\ LET username == get_username_from_request(bearer)
           rec == Run("enhance", username, 0,
                      [uid |-> uid, use_guard |-> use_guard, success |-> success,
                       growth |-> growth, guard_active |-> FALSE, bearer |-> bearer])
       IN  IF username = None
           THEN Goto(t, [rec EXCEPT !.res = "Unauthorized"], "enhance_2043")
           ELSE /\ AttrsInBounds(username, uid) /\ GuardInBounds(username)
                /\ Goto(t, rec, "enhance_491")

\* get_equipment's r.exists (line 394), for the username read at line 483
api_equip_enhance_491(t) ==
    /\ th[t].pc = "enhance_491"
    /\ UNCHANGED store
    /\ IF ~HExists(equips[<<th[t].user, th[t].args.uid>>])
       THEN Goto(t, [th[t] EXCEPT !.res = "NotFound"], "enhance_2043")
       ELSE Goto(t, th[t], "enhance_396")

\* api_equip_enhance_396 refusing only above MaxLevel
api_equip_enhance_396_above(t) ==
    /\ th[t].pc = "enhance_396"
    /\ UNCHANGED store
    /\ LET eq == equips[<<th[t].user, th[t].args.uid>>] IN
       IF ~(NumericEquipFields \subseteq DOMAIN eq) THEN Return(t, th[t], "Error500")
       ELSE IF eq["enhance"] > MaxLevel
       THEN Goto(t, [th[t] EXCEPT !.res = "AtMaxLevel"], "enhance_2043")
       ELSE Goto(t, [th[t] EXCEPT !.a = eq], "enhance_504")

\* get_equipment's hgetall and conversions (KeyError when a numeric field is
\* missing), then the refusal at MaxLevel
api_equip_enhance_396(t) ==
    /\ th[t].pc = "enhance_396"
    /\ UNCHANGED store
    /\ LET eq == equips[<<th[t].user, th[t].args.uid>>] IN
       IF ~(NumericEquipFields \subseteq DOMAIN eq) THEN Return(t, th[t], "Error500")
       ELSE IF eq["enhance"] >= MaxLevel
       THEN Goto(t, [th[t] EXCEPT !.res = "AtMaxLevel"], "enhance_2043")
       ELSE Goto(t, [th[t] EXCEPT !.a = eq], "enhance_504")

\* has_guard is the string r.get returns: any count, "0" and "-1" too, is truthy
api_equip_enhance_504(t) ==
    /\ th[t].pc = "enhance_504"
    /\ UNCHANGED store
    /\ LET has_guard == HHas(equip_guard, th[t].user)
           rec == [th[t] EXCEPT !.res = IF th[t].args.success THEN "ok" ELSE "fail"]
       IN  IF th[t].args.use_guard /\ has_guard /\ th[t].a["enhance"] >= GuardLevel
           THEN Goto(t, [rec EXCEPT !.args.guard_active = TRUE], "enhance_510")
           ELSE Goto(t, EnhanceOutcomeRec(rec, FALSE), EnhanceOutcomePc(rec, FALSE))

api_equip_enhance_510(t) ==
    /\ th[t].pc = "enhance_510"
    /\ equip_guard' = HIncrBy(equip_guard, th[t].user, -1)
    /\ Goto(t, EnhanceOutcomeRec(th[t], TRUE), EnhanceOutcomePc(th[t], TRUE))
    /\ UNCHANGED <<users, inventory, equips, slots, auctions, openIdx, nextId, powerRank, role, session, session_meta, token, friends, friend_requests, issued, expiry>>

api_equip_enhance_531(t) ==
    /\ th[t].pc = "enhance_531"
    /\ equips' = [equips EXCEPT ![<<th[t].user, th[t].args.uid>>] =
                      HSetMap(@, new_attr(th[t].a, th[t].args.growth))]
    /\ Goto(t, log_action(th[t], th[t].user, "enhance_success",
                          [uid |-> th[t].args.uid, new_level |-> th[t].a["enhance"] + 1]),
            "enhance_2043")
    /\ UNCHANGED <<users, inventory, slots, auctions, openIdx, nextId, powerRank, role, equip_guard, session, session_meta, token, friends, friend_requests, issued, expiry>>

api_equip_enhance_552(t) ==
    /\ th[t].pc = "enhance_552"
    /\ LET f == FailOutcome(th[t].a["enhance"], th[t].args.guard_active)
           new_lv == Max(0, th[t].a["enhance"] + f.value)
       IN  /\ equips' = [equips EXCEPT ![<<th[t].user, th[t].args.uid>>] =
                             HSet(@, "enhance", new_lv)]
           /\ Goto(t, log_enhance_fail(th[t], new_lv, f.type), "enhance_2043")
    /\ UNCHANGED <<users, inventory, slots, auctions, openIdx, nextId, powerRank, role, equip_guard, session, session_meta, token, friends, friend_requests, issued, expiry>>

api_equip_enhance_555(t) ==
    /\ th[t].pc = "enhance_555"
    /\ equips' = [equips EXCEPT ![<<th[t].user, th[t].args.uid>>] = HSet(@, "enhance", 0)]
    /\ Goto(t, log_enhance_fail(th[t], 0, "reset"), "enhance_2043")
    /\ UNCHANGED <<users, inventory, slots, auctions, openIdx, nextId, powerRank, role, equip_guard, session, session_meta, token, friends, friend_requests, issued, expiry>>

api_equip_enhance_557(t) ==
    /\ th[t].pc = "enhance_557"
    /\ equips' = delete_equipment(equips, th[t].user, th[t].args.uid)
    /\ Goto(t, log_action([th[t] EXCEPT !.res = "explode"], th[t].user, "equip_deleted",
                          [uid |-> th[t].args.uid]),
            "enhance_2043")
    /\ UNCHANGED <<users, inventory, slots, auctions, openIdx, nextId, powerRank, role, equip_guard, session, session_meta, token, friends, friend_requests, issued, expiry>>

\* username = get_username_from_request() of line 2043: update_power_rank is called
\* only if it returns a username (line 2044)
enhanced_enhance_2043(t) ==
    /\ th[t].pc = "enhance_2043"
    /\ UNCHANGED store
    /\ LET rec == Wrapped(th[t]) IN
       IF rec.user = None THEN Return(t, rec, rec.res) ELSE Goto(t, rec, "cfs_690")

\* POST /root/give_guard/<target>?n=..., by root: one incrby
api_root_give_guard_580(t, target, n) ==
    /\ Begin(t)
    /\ HHas(equip_guard, target) => equip_guard[target] < MaxGuard
    /\ equip_guard' = HIncrBy(equip_guard, target, n)
    /\ Return(t, Run("give_guard", "root", 0, [n |-> n]), "ok")
    /\ UNCHANGED <<users, inventory, equips, slots, auctions, openIdx, nextId, powerRank, role, session, session_meta, token, friends, friend_requests, issued, expiry>>

(***************************************************************************)
(* Experience: add_exp, POST /player/exp with its power-rank wrapper, and  *)
(* POST /admin/exp/<target>, by an administrator.                          *)
(***************************************************************************)
\* get_user's int(data.get(fld, default))
user_field(user, fld, default) == IF HHas(user, fld) THEN user[fld] ELSE default

level_exp_required(level) ==
    IF level = 1 THEN 100
    ELSE IF level = 2 THEN 300
    ELSE IF level = 3 THEN 600
    ELSE IF level = 4 THEN 1000
    ELSE level * level * 100

\* grow_stats of a level-up: the least and the greatest the four draws give
GrowStatsInputs ==
    {[atk |-> 2, def |-> 2, hp |-> 10, spd |-> 1], [atk |-> 5, def |-> 5, hp |-> 30, spd |-> 3]}
\* the greatest growth alone
MostGrowStatsInputs == {[atk |-> 5, def |-> 5, hp |-> 30, spd |-> 3]}
\* exp of a request: what the first level takes
ExpInputs == {100}
\* MaxRoleAtk bounds the base stats: experience is granted while the attack of the
\* account's role is at most MaxRoleAtk
MaxRoleAtk == 14
RoleInBounds(username) == HHas(role[username], "atk") => role[username]["atk"] <= MaxRoleAtk

\* where add_exp goes with new_exp in g1 and level in g2: into the loop or past it
AddExpPc(rec) == IF rec.g1 >= level_exp_required(rec.g2) THEN "add_exp_654" ELSE "add_exp_674"

\* add_exp's first lines, for the request rec of the route that calls it
add_exp_636(t, rec, username, exp_gain) ==
    LET user == get_user(username)
        r2 == [rec EXCEPT !.g1 = user_field(user, "exp", 0) + exp_gain,
                          !.g2 = user_field(user, "level", 1)]
    IN  /\ Goto(t, r2, AddExpPc(r2))
        /\ UNCHANGED store

\* one turn of the loop: new_exp and level move on and grow_stats is drawn
add_exp_654(t, grow_stats) ==
    /\ th[t].pc = "add_exp_654"
    /\ UNCHANGED store
    /\ Goto(t, [th[t] EXCEPT !.g1 = @ - level_exp_required(th[t].g2), !.g2 = @ + 1,
                             !.data = grow_stats], "add_exp_661")

\* the hincrby of role field fld by the drawn growth, at position pc, then on to next
add_exp_hincrby(t, pc, fld, next) ==
    /\ th[t].pc = pc
    /\ role' = [role EXCEPT ![th[t].user] = HIncrBy(@, fld, th[t].data[fld])]
    /\ Goto(t, th[t], next)
    /\ UNCHANGED <<users, inventory, equips, slots, auctions, openIdx, nextId, powerRank, equip_guard, session, session_meta, token, friends, friend_requests, issued, expiry>>

add_exp_661(t) == add_exp_hincrby(t, "add_exp_661", "atk", "add_exp_662")
add_exp_662(t) == add_exp_hincrby(t, "add_exp_662", "def", "add_exp_663")
add_exp_663(t) == add_exp_hincrby(t, "add_exp_663", "hp", "add_exp_664")
add_exp_664(t) == add_exp_hincrby(t, "add_exp_664", "spd", AddExpPc(th[t]))

\* set_user_field(username, "exp", new_exp): NameError; exp and level are never
\* stored and the route ends with a 500.  The exception leaves wrapped_add_exp too,
\* whose call of the view function (line 2089) stands before its try
add_exp_674(t) ==
    /\ th[t].pc = "add_exp_674"
    /\ UNCHANGED store
    /\ Return(t, th[t], "Error500")

\* username = get_username_from_request() of line 748: r.get of the token's key.
\* Without a username the view function returns its 401 to wrapped_add_exp
api_player_add_exp_748(t, bearer, exp_gain) ==
    /\ Begin(t)
    /\ UNCHANGED store
    /\ LET username == get_username_from_request(bearer)
           rec == Run("player_exp", username, 0, [exp |-> exp_gain, bearer |-> bearer])
       IN  IF username = None
           THEN Goto(t, [rec EXCEPT !.res = "Unauthorized"], "add_exp_2091")
           ELSE /\ RoleInBounds(username)
                /\ Goto(t, rec, "player_exp_756")

\* result = add_exp(username, exp_gain), for the username read at line 748
api_player_add_exp_756(t) ==
    /\ th[t].pc = "player_exp_756"
    /\ add_exp_636(t, th[t], th[t].user, th[t].args.exp)

\* the view function has returned: username = get_username_from_request() of line
\* 2091, and update_power_rank is called with whatever it returns, None too
wrapped_add_exp_2091(t) ==
    /\ th[t].pc = "add_exp_2091"
    /\ UNCHANGED store
    /\ Goto(t, Wrapped(th[t]), "cfs_690")

api_admin_exp_1782(t, target, amount) ==
    /\ Begin(t)
    /\ RoleInBounds(target)
    /\ add_exp_636(t, Run("admin_exp", target, 0, [exp |-> amount]), target, amount)

(***************************************************************************)
(* POST /admin/equip/edit/<target>/<uid> and                               *)
(* DELETE /admin/equip/delete/<target>/<uid>, by root.                     *)
(***************************************************************************)
\* the update the edit builds from the request's allowed keys: none of them, the
\* level alone, or the level and the six attributes
EditInputs ==
    {EmptyHash,
     [x \in {"enhance"} |-> 0],
     [x \in NumericEquipFields |-> IF x = "enhance" THEN 0 ELSE ATTR_MIN]}

\* one hset with the mapping update; redis-py raises DataError for an empty mapping
api_admin_edit_equip_1825(t, target, uid, update) ==
    /\ Begin(t)
    /\ LET rec == Run("admin_edit_equip", "root", 0, [target |-> target, uid |-> uid]) IN
       IF ~HExists(update)
       THEN /\ Return(t, rec, "Error500")
            /\ UNCHANGED equips
       ELSE /\ equips' = [equips EXCEPT ![<<target, uid>>] = HSetMap(@, update)]
            /\ Return(t, rec, "ok")
    /\ UNCHANGED <<users, inventory, slots, auctions, openIdx, nextId, powerRank, role, equip_guard, session, session_meta, token, friends, friend_requests, issued, expiry>>

\* uuid.uuid4(): a uid it has not returned before (which one is immaterial)
uuid4 == CHOOSE uid \in Uids \ issued : TRUE

\* the six numbers roll() draws for a grant: the least or the greatest each
GiveRollInputs == {[x \in Attrs |-> n] : n \in RollInputs}
\* the rarity random.choice draws for a grant
GiveRarityInputs == {"white", "gold"}

\* POST /admin/equip/give/<target>, by root: generate_equipment's hset of line 383
\* under a new uid (the target is not looked up); of Uids one is left to issue
api_admin_give_equip_1852(t, target, equip_type, rarity, n) ==
    /\ Begin(t)
    /\ issued # Uids
    /\ equips' = [equips EXCEPT ![<<target, uuid4>>] =
                      HSetMap(@, generate_equipment(equip_type, rarity, n))]
    /\ issued' = issued \cup {uuid4}
    /\ Return(t, Run("admin_give_equip", "root", 0, [target |-> target]), "ok")
    /\ UNCHANGED <<users, inventory, slots, auctions, openIdx, nextId, powerRank, role, equip_guard, session, session_meta, token, friends, friend_requests, expiry>>

api_admin_delete_equip_1839(t, target, uid) ==
    /\ Begin(t)
    /\ equips' = delete_equipment(equips, target, uid)
    /\ Return(t, log_action(Run("admin_delete_equip", "root", 0, [target |-> target, uid |-> uid]),
                            target, "equip_deleted", [uid |-> uid]),
              "ok")
    /\ UNCHANGED <<users, inventory, slots, auctions, openIdx, nextId, powerRank, role, equip_guard, session, session_meta, token, friends, friend_requests, issued, expiry>>

(***************************************************************************)
(* Sessions: POST /auth/login with the account's password (the counter of  *)
(* failed attempts and the account lock stay absent), and                  *)
(* POST /admin/ban/<target>.                                               *)
(***************************************************************************)
\* MaxTokens bounds the tokens secrets.token_hex draws from
MaxTokens == 3
TokenIds == 1..MaxTokens
DeviceInputs == {"phone", "desktop"}

\* a token no key holds and no login in progress has drawn
FreshToken(tok) ==
    /\ ~HHas(token, tok)
    /\ tok \notin HValues(session)
    /\ \A x \in Threads : th[x].pc = "login_178" => th[x].args.token # tok

\* api_login up to create_session's r.exists(sess), and the token it then draws
api_login_156(t, username, device, tok) ==
    /\ Begin(t)
    /\ FreshToken(tok)
    /\ UNCHANGED store
    /\ LET rec == Run("login", username, 0, [device |-> device, token |-> tok]) IN
       IF HHas(session, username)
       THEN Return(t, rec, "ALREADY_LOGGED_IN")
       ELSE Goto(t, rec, "login_178")

\* pipe.execute(): the three keys are written, each with SESSION_TTL to live, in
\* one MULTI/EXEC transaction (of session_meta the device is kept; ip and
\* login_time are left out)
create_session_178(t) ==
    /\ th[t].pc = "login_178"
    /\ session' = HSet(session, th[t].user, th[t].args.token)
    /\ session_meta' = HSet(session_meta, th[t].user, [device |-> th[t].args.device])
    /\ token' = HSet(token, th[t].args.token, th[t].user)
    /\ expiry' = Append(expiry, th[t].args.token)
    /\ Return(t, th[t], "ok")
    /\ UNCHANGED <<users, inventory, equips, slots, auctions, openIdx, nextId, powerRank, role,
                   equip_guard, friends, friend_requests, issued>>

\* SESSION_TTL after the oldest login's EXEC (pipe.expire, lines 166, 173 and 176)
\* Redis drops its keys: token:<token>, and session:<username> and
\* session_meta:<username> unless a later login has written them anew (its EXEC
\* set their time to live again)
create_session_expire ==
    /\ expiry # <<>>
    /\ LET tok == Head(expiry)
           username == token[tok]
       IN  /\ token' = HDel(token, tok)
           /\ IF HHas(session, username) /\ session[username] = tok
              THEN /\ session' = HDel(session, username)
                   /\ session_meta' = HDel(session_meta, username)
              ELSE UNCHANGED <<session, session_meta>>
    /\ expiry' = Tail(expiry)
    /\ UNCHANGED <<users, inventory, equips, slots, auctions, openIdx, nextId, powerRank, role,
                   equip_guard, friends, friend_requests, issued, th>>

\* set_user_field(target, "banned", 1): NameError; the account is not marked and
\* destroy_session of line 1720 is never reached
api_admin_ban_1719(t, target) ==
    /\ Begin(t)
    /\ UNCHANGED store
    /\ Return(t, Run("ban", target, 0, EmptyHash), "Error500")

(***************************************************************************)
(* The initial state: the registered accounts (register_user gives each    *)
(* InitialGold), and one piece of equipment that root has granted to u1,   *)
(* under the uid e1; no stack, no listing, no friend and no session yet.   *)
(***************************************************************************)
InitEquip == generate_equipment("weapon", "white", [x \in Attrs |-> ATTR_MIN])

\* the store in which u1 holds the instance eq under e1, and thread 1 has answered last
InitWith(eq, last) ==
    /\ users = [u \in Users |-> [gold |-> InitialGold]]
    /\ inventory = [u \in Users |-> EmptyHash]
    /\ equips = [k \in Users \X Uids |-> IF k = <<"u1", "e1">> THEN eq ELSE EmptyHash]
    /\ slots = [u \in Users \cup {None} |-> <<>>]
    /\ auctions = [aid \in AuctionIds |-> EmptyHash]
    /\ openIdx = EmptyHash
    /\ nextId = 0
    /\ equip_guard = EmptyHash
    /\ friends = [u \in Users |-> {}]
    /\ friend_requests = [u \in Users |-> {}]
    /\ issued = {"e1"}
    /\ th = [t \in Threads |-> IF t = 1 THEN last ELSE Idle]

\* nobody has logged in
NoSession ==
    /\ session = EmptyHash
    /\ session_meta = EmptyHash
    /\ token = EmptyHash
    /\ expiry = <<>>

\* the tokens of the logins so far
HolderTokens == {1}
\* the instances root has granted so far
HeldUids == {"e1"}

\* u1 has logged in from a phone (POST /auth/login) and holds the token 1: the three
\* keys create_session has written
HolderSession ==
    /\ session = HSet(EmptyHash, "u1", 1)
    /\ session_meta = HSet(EmptyHash, "u1", [device |-> "phone"])
    /\ token = HSet(EmptyHash, 1, "u1")
    /\ expiry = <<1>>

Init ==
    /\ InitWith(InitEquip, Idle)
    /\ NoSession
    /\ powerRank = EmptyHash
    /\ role = [u \in Users \cup {None} |-> EmptyHash]

\* the same once u1 has logged in
InitSession ==
    /\ InitWith(InitEquip, Idle)
    /\ HolderSession
    /\ powerRank = EmptyHash
    /\ role = [u \in Users \cup {None} |-> EmptyHash]

\* the create requests with a type in types and a buyout_price in buyouts
Create(t, types, buyouts) ==
    \/ \E u \in Users, ty \in types, sp \in StartPriceInputs, bp \in buyouts :
          IF ty = "item"
          THEN \E i \in Items, q \in ItemQtyInputs :
                  api_auction_create_1454(t, u, ty, i, "", q, sp, bp)
          ELSE \E e \in Uids, q \in QtyInputs :
                  api_auction_create_1454(t, u, ty, "", e, q, sp, bp)
    \/ api_auction_create_396(t)
    \/ api_auction_create_1477(t)
    \/ api_auction_create_1482(t)
    \/ api_auction_create_1490(t)
    \/ api_auction_create_1508(t)
    \/ api_auction_create_1509_time(t)
    \/ api_auction_create_1509(t)

Bid(t) ==
    \/ \E u \in Users, aid \in AuctionIds, amount \in BidInputs :
          api_auction_bid_1530(t, u, aid, amount)
    \/ api_auction_bid_1540(t)
    \/ api_auction_bid_1545(t)
    \/ api_auction_bid_1546(t)

Buy(t) ==
    \/ \E u \in Users, aid \in AuctionIds : api_auction_buy_1565(t, u, aid)
    \/ api_auction_buy_1577(t)
    \/ api_auction_buy_1578(t)
    \/ api_auction_buy_1584(t)

Cancel(t) ==
    \/ \E u \in Users, aid \in AuctionIds : api_auction_cancel_1633(t, u, aid)
    \/ api_auction_cancel_1646(t)
    \/ api_auction_cancel_1652(t)
    \/ api_auction_cancel_1653(t)

\* no listing is a stack listing, so the removal ends at its first command
AdminRemove(t) == \E aid \in AuctionIds : api_admin_auction_remove_1885(t, aid)

\* the wear requests that carry a token of bearers, for an instance of uids
WearBy(t, bearers, uids) ==
    \/ \E b \in bearers, e \in uids, sl \in SlotInputs : api_equip_wear_415(t, b, e, sl)
    \/ api_equip_wear_426(t)
    \/ api_equip_wear_396(t)
    \/ api_equip_wear_431(t)
    \/ wrapped_wear_2063(t)

\* the unwear requests that carry a token of bearers
UnwearBy(t, bearers) ==
    \/ \E b \in bearers, sl \in SlotInputs : api_equip_unwear_439(t, b, sl)
    \/ api_equip_unwear_449(t)
    \/ wrapped_unwear_2072(t)

ShopBuy(t) ==
    \/ \E u \in Users, i \in Items, q \in ShopQtyInputs : api_shop_buy_1373(t, u, i, q)
    \/ api_shop_buy_1378(t)

\* the enhancement requests that carry a token of bearers, for an instance of uids
\* and with a growth in growths
EnhanceBy(t, bearers, uids, growths) ==
    \/ \E b \in bearers, e \in uids, use_guard \in BOOLEAN, success \in BOOLEAN, g \in growths :
          api_equip_enhance_483(t, b, e, use_guard, success, g)
    \/ api_equip_enhance_491(t)
    \/ api_equip_enhance_396(t)
    \/ api_equip_enhance_504(t)
    \/ api_equip_enhance_510(t)
    \/ api_equip_enhance_531(t)
    \/ api_equip_enhance_552(t)
    \/ api_equip_enhance_555(t)
    \/ api_equip_enhance_557(t)
    \/ enhanced_enhance_2043(t)

\* the grants of protection tokens to the accounts in targets
GiveGuardTo(t, targets) ==
    \E u \in targets, n \in GuardGrantInputs : api_root_give_guard_580(t, u, n)

AdminGold(t) ==
    \/ \E u \in Users, amount \in AdminAmountInputs : api_admin_gold_1762(t, u, amount)
    \/ api_admin_gold_1767(t)

(***************************************************************************)
(* Spec: the auction house.  Request threads run create, buy, cancel and   *)
(* the administrative removal, interleaved command by command.             *)
(***************************************************************************)
Next ==
    \E t \in Threads :
        Create(t, TypeInputs, BuyoutInputs) \/ Buy(t) \/ Cancel(t) \/ AdminRemove(t)

Spec == Init /\ [][Next]_vars

(***************************************************************************)
(* SpecEquip: the equipment of the account that holds it, between the      *)
(* slots and the auction house.  u1 has logged in and its session outlasts *)
(* the requests (SpecBearer has the expiry).                               *)
(***************************************************************************)
Holders == {"u1"}

\* the create requests for an equipment listing
CreateEquip(t) == Create(t, {"equip"}, NoBuyoutInputs)

NextEquip ==
    \E t \in Threads :
        \/ WearBy(t, HolderTokens, Uids) \/ UnwearBy(t, HolderTokens) \/ UpdatePowerRank(t)
        \/ CreateEquip(t) \/ Cancel(t)

SpecEquip == InitSession /\ [][NextEquip]_vars

(***************************************************************************)
(* SpecLedger: the operations that are to write gold: buyNow on listings   *)
(* with a buyout price, positive or negative, shop purchases and the       *)
(* administrative adjustment.                                              *)
(***************************************************************************)
NextLedger ==
    \E t \in Threads :
        \/ Create(t, {"equip"}, BuyoutInputs \cup NegativeBuyoutInputs)
        \/ Buy(t) \/ ShopBuy(t) \/ AdminGold(t)

SpecLedger == Init /\ [][NextLedger]_vars

(***************************************************************************)
(* SpecBuyout: listings whose buyout_price is negative or not set, and     *)
(* their settlement.                                                       *)
(***************************************************************************)
NextBuyout ==
    \E t \in Threads :
        Create(t, TypeInputs, NegativeBuyoutInputs \cup NoBuyoutInputs) \/ Buy(t)

SpecBuyout == Init /\ [][NextBuyout]_vars

(***************************************************************************)
(* SpecBid: listings without a buyout price, bid on and cancelled.         *)
(***************************************************************************)
NextBid ==
    \E t \in Threads :
        Create(t, TypeInputs, NoBuyoutInputs) \/ Bid(t) \/ Cancel(t)

SpecBid == Init /\ [][NextBid]_vars

(***************************************************************************)
(* SpecRoundTrip: u1 holds any one generated piece of equipment; listings  *)
(* of it are created and cancelled.                                        *)
(***************************************************************************)
GeneratedEquipment ==
    {generate_equipment(ty, rarity, n) :
        ty \in SlotInputs, rarity \in RARITY_LIST, n \in GiveRollInputs}

InitGen ==
    /\ \E eq \in GeneratedEquipment : InitWith(eq, Idle)
    /\ NoSession
    /\ powerRank = EmptyHash
    /\ role = [u \in Users \cup {None} |-> EmptyHash]

NextRoundTrip == \E t \in Threads : CreateEquip(t) \/ Cancel(t)

SpecRoundTrip == InitGen /\ [][NextRoundTrip]_vars

(***************************************************************************)
(* SpecEnhanceRace: enhancement attempts on the equipment by the account   *)
(* that holds it, which has logged in and whose session outlasts them, and *)
(* grants of protection tokens to it.                                      *)
(***************************************************************************)
NextEnhanceRace ==
    \E t \in Threads :
        \/ EnhanceBy(t, HolderTokens, HeldUids, LeastGrowthInputs)
        \/ UpdatePowerRankBare(t)
        \/ GiveGuardTo(t, Holders)

SpecEnhanceRace == InitSession /\ [][NextEnhanceRace]_vars

(***************************************************************************)
(* SpecExplode: u1's equipment after nineteen successful attempts of least *)
(* growth, at level 19; enhancement attempts by u1 (logged in, and without *)
(* a protection token), wear requests and equipment listings.              *)
(***************************************************************************)
\* the state SpecEnhanceRace is in after the nineteenth success, all by thread 1
InitLevel19 ==
    /\ InitWith(HSet(InitEquip, "enhance", MaxLevel - 1),
                [Idle EXCEPT !.pc = "done", !.op = "enhance", !.res = "ok"])
    /\ HolderSession
    /\ powerRank = [u \in Holders |-> compute_power(BaseStats)]
    /\ role = [u \in Users \cup {None} |-> IF u \in Holders THEN BaseStats ELSE EmptyHash]

\* the attempts, on an instance of uids at level 19 or 20, of a caller without
\* protection token: the commands of that token, of a drop and of a reset are not
\* reached
EnhanceAtTop(t, bearers, uids, growths) ==
    \/ \E b \in bearers, e \in uids, use_guard \in BOOLEAN, success \in BOOLEAN, g \in growths :
          api_equip_enhance_483(t, b, e, use_guard, success, g)
    \/ api_equip_enhance_491(t)
    \/ api_equip_enhance_396(t)
    \/ api_equip_enhance_504(t)
    \/ api_equip_enhance_531(t)
    \/ api_equip_enhance_557(t)
    \/ enhanced_enhance_2043(t)

NextExplode ==
    \E t \in Threads :
        \/ EnhanceAtTop(t, HolderTokens, Uids, LeastGrowthInputs)
        \/ WearBy(t, HolderTokens, Uids)
        \/ UpdatePowerRankOfRole(t)
        \/ CreateEquip(t)

SpecExplode == InitLevel19 /\ [][NextExplode]_vars

(***************************************************************************)
(* SpecPower: what changes or computes an account's power: wear, unwear,   *)
(* and the two routes that grant experience.  u1 has logged in and its     *)
(* session outlasts the requests.                                          *)
(***************************************************************************)
\* the requests for experience that carry a token of bearers, grow_stats drawn from
\* grows
PlayerExp(t, bearers, grows) ==
    \/ \E b \in bearers, x \in ExpInputs : api_player_add_exp_748(t, b, x)
    \/ api_player_add_exp_756(t)
    \/ \E g \in grows : add_exp_654(t, g)
    \/ add_exp_661(t)
    \/ add_exp_662(t)
    \/ add_exp_663(t)
    \/ add_exp_664(t)
    \/ add_exp_674(t)

\* the grants of experience to the accounts in targets
AdminExp(t, targets) == \E u \in targets, x \in ExpInputs : api_admin_exp_1782(t, u, x)

Friends(t) ==
    \/ \E u, target \in Users :
          \/ api_friend_request_792(t, u, target)
          \/ api_friend_accept_837(t, u, target)
          \/ api_friend_reject_862(t, u, target)
          \/ api_friend_remove_882(t, u, target)
    \/ api_friend_request_796(t)
    \/ api_friend_request_800(t)
    \/ api_friend_request_801(t)
    \/ api_friend_request_802(t)
    \/ api_friend_request_804(t)
    \/ api_friend_request_809(t)
    \/ api_friend_accept_841(t)
    \/ api_friend_accept_842(t)
    \/ api_friend_accept_845(t)
    \/ api_friend_reject_865(t)
    \/ api_friend_remove_885(t)
    \/ api_friend_remove_886(t)

NextPower ==
    \E t \in Threads :
        \/ WearBy(t, HolderTokens, HeldUids) \/ UnwearBy(t, HolderTokens) \/ UpdatePowerRank(t)
        \/ PlayerExp(t, HolderTokens, MostGrowStatsInputs) \/ AdminExp(t, Holders)

SpecPower == InitSession /\ [][NextPower]_vars

(***************************************************************************)
(* SpecFriends: the friendships, and the routes that compute the stats of  *)
(* an account, of its friends or of the two sides of a fight.  No slot is  *)
(* filled, so get_equipment is not reached.                                *)
(***************************************************************************)
FriendStats(t) ==
    \/ \E u \in Users : api_player_stats_735(t, u)
    \/ \E u \in Users : \E fl \in Listings(friends[u]) :
          api_friend_list_900(t, u, fl) \/ api_rank_friends_1304(t, u, fl)
    \/ \E u, target \in Users : api_battle_pvp_1126(t, u, target)
    \/ compute_final_stats_687(t)
    \/ init_role_606(t)
    \/ compute_final_stats_693(t)
    \/ compute_final_stats_701(t)
    \/ api_friend_list_906(t)
    \/ api_battle_pvp_1141(t)

NextFriends == \E t \in Threads : Friends(t) \/ FriendStats(t)

SpecFriends == Init /\ [][NextFriends]_vars

(***************************************************************************)
(* SpecAdminEquip: root granting, editing and deleting equipment.          *)
(***************************************************************************)
AdminGiveEquip(t) ==
    \E u \in Users, ty \in SlotInputs, rarity \in GiveRarityInputs, n \in GiveRollInputs :
        api_admin_give_equip_1852(t, u, ty, rarity, n)

AdminEditEquip(t) ==
    \E u \in Users, e \in Uids, update \in EditInputs : api_admin_edit_equip_1825(t, u, e, update)

AdminDeleteEquip(t) == \E u \in Users, e \in Uids : api_admin_delete_equip_1839(t, u, e)

NextAdminEquip ==
    \E t \in Threads :
        \/ AdminGiveEquip(t)
        \/ AdminEditEquip(t)
        \/ AdminDeleteEquip(t)

SpecAdminEquip == Init /\ [][NextAdminEquip]_vars

(***************************************************************************)
(* SpecSession: logins and bans, and the expiry of sessions.               *)
(***************************************************************************)
Login(t) ==
    \/ \E u \in Users, d \in DeviceInputs, tok \in TokenIds : api_login_156(t, u, d, tok)
    \/ create_session_178(t)

Ban(t) == \E u \in Users : api_admin_ban_1719(t, u)

NextSession == (\E t \in Threads : Login(t) \/ Ban(t)) \/ create_session_expire

SpecSession == Init /\ [][NextSession]_vars

(***************************************************************************)
(* SpecBearer: u1 with its instance at level 19 and the token 1; wear and   *)
(* enhancement requests that carry a token, the expiry of the token 1,     *)
(* after which the view functions answer 401 and the wrappers read None    *)
(* for the username, and u1's next login, which draws the token 2.         *)
(* SpecBearerSlots: the same for wear and unwear requests.                 *)
(***************************************************************************)
\* the token of u1's first login and the token of its next
BearerTokens == {1, 2}

\* u1's next login from its phone
LoginAgain(t) ==
    \/ \E tok \in BearerTokens \ HolderTokens : api_login_156(t, "u1", "phone", tok)
    \/ create_session_178(t)

NextBearer ==
    \/ \E t \in Threads :
          \/ EnhanceAtTop(t, BearerTokens, HeldUids, LeastGrowthInputs)
          \/ WearBy(t, BearerTokens, HeldUids)
          \/ UpdatePowerRank(t)
          \/ LoginAgain(t)
    \/ create_session_expire

SpecBearer == InitLevel19 /\ [][NextBearer]_vars

NextBearerSlots ==
    \/ \E t \in Threads :
          \/ WearBy(t, BearerTokens, HeldUids) \/ UnwearBy(t, BearerTokens)
          \/ UpdatePowerRank(t)
          \/ LoginAgain(t)
    \/ create_session_expire

SpecBearerSlots == InitSession /\ [][NextBearerSlots]_vars

(***************************************************************************)
(* SpecBearerExp: the requests for experience that carry u1's token, and   *)
(* the expiry of that token: the view function then answers 401 and its    *)
(* wrapper calls update_power_rank with None.                              *)
(***************************************************************************)
NextBearerExp ==
    \/ \E t \in Threads :
          \/ PlayerExp(t, HolderTokens, GrowStatsInputs)
          \/ wrapped_add_exp_2091(t)
          \/ UpdatePowerRankBare(t)
    \/ create_session_expire

SpecBearerExp == InitSession /\ [][NextBearerExp]_vars

(***************************************************************************)
(* Quantities the properties are stated over.                              *)
(***************************************************************************)
RECURSIVE SumGold(_)
\* the sum of the gold of the accounts in S
SumGold(S) ==
    IF S = {} THEN 0
    ELSE LET u == CHOOSE x \in S : TRUE IN users[u]["gold"] + SumGold(S \ {u})

TotalGold == SumGold(Users)

Stock(u, item) == IF HHas(inventory[u], item) THEN inventory[u][item] ELSE 0

RECURSIVE SumStock(_, _)
SumStock(S, item) ==
    IF S = {} THEN 0
    ELSE LET u == CHOOSE x \in S : TRUE IN Stock(u, item) + SumStock(S \ {u}, item)

IsOpen(aid) == HHas(auctions[aid], "status") /\ auctions[aid]["status"] = "open"

\* the open listings that hold item in escrow
ItemListings(item) ==
    {aid \in AuctionIds : /\ IsOpen(aid)
                          /\ {"type", "item_id", "qty"} \subseteq DOMAIN auctions[aid]
                          /\ auctions[aid]["type"] = "item"
                          /\ auctions[aid]["item_id"] = item}

RECURSIVE SumEscrow(_)
SumEscrow(S) ==
    IF S = {} THEN 0
    ELSE LET aid == CHOOSE x \in S : TRUE IN auctions[aid]["qty"] + SumEscrow(S \ {aid})

\* the open listings that name the equipment uid
EquipListings(uid) ==
    {aid \in AuctionIds : /\ IsOpen(aid)
                          /\ {"type", "uid"} \subseteq DOMAIN auctions[aid]
                          /\ auctions[aid]["type"] = "equip"
                          /\ auctions[aid]["uid"] = uid}

Owners(uid) == {u \in Users : HExists(equips[<<u, uid>>])}

\* a buyNow that has passed every check of api_auction_buy and stands at its first
\* write, the debit of the buyer
BuyAdmitted(t) == th[t].pc = "buy_1584"
\* a cancellation that has returned the escrow and deleted the listing
Cancelled(t) == th[t].pc = "cancel_1653"

(***************************************************************************)
(* C2.  Of two concurrent buyNow calls on the same open listing only one   *)
(* gets past the check of the status: two requests never both stand at     *)
(* the settlement of the same listing (the other has seen status != open). *)
(***************************************************************************)
C2_OneBuyerWins ==
    \A t1, t2 \in Threads :
        (t1 # t2 /\ BuyAdmitted(t1) /\ BuyAdmitted(t2)) => th[t1].aid # th[t2].aid

(***************************************************************************)
(* C3.  Every unit of a stack item and every equipment instance has        *)
(* exactly one holder: whenever no handler is mid-execution, the stack     *)
(* quantities of all accounts plus the quantities escrowed by open         *)
(* listings add up to what they did initially (nothing), and each          *)
(* equipment uid that has been issued exists under exactly one owner.      *)
(***************************************************************************)
C3_OneHolder ==
    Quiescent =>
        /\ \A item \in Items : SumStock(Users, item) + SumEscrow(ItemListings(item)) = 0
        /\ \A uid \in Uids : Cardinality(Owners(uid)) = IF uid \in issued THEN 1 ELSE 0

\* a buyNow has ended and a cancel has returned the escrow, and nothing is in progress
C3_Witness ==
    /\ Quiescent
    /\ \E t \in Threads : th[t].op = "buy" /\ th[t].res = "Error500"
    /\ \E t \in Threads : th[t].op = "cancel" /\ th[t].res = "ok"

\* account u holds no stack and no equipment
HoldsNothing(u) ==
    /\ \A item \in Items : Stock(u, item) = 0
    /\ \A uid \in Uids : ~HExists(equips[<<u, uid>>])

(***************************************************************************)
(* C4.  A cancel by the seller and a buyNow by another account racing on   *)
(* the same open listing: once both have returned, the escrowed instance   *)
(* is with exactly one of seller and buyer, no gold has been made or lost, *)
(* and an account has paid gold only if it holds what it bought.           *)
(***************************************************************************)
C4_CancelOrBuy ==
    Quiescent =>
        /\ \A uid \in issued : \E u \in Users : Owners(uid) = {u}
        /\ TotalGold = Cardinality(Users) * InitialGold
        /\ \A u \in Users : HoldsNothing(u) => users[u]["gold"] >= InitialGold

\* a cancel and a buyNow of the same listing have both passed their checks
C4_Witness ==
    \E t1, t2 \in Threads :
        /\ th[t1].pc \in {"cancel_1646", "cancel_1652", "cancel_1653"}
        /\ BuyAdmitted(t2)
        /\ th[t1].aid = th[t2].aid

(***************************************************************************)
(* C5.  Two concurrent buyNow calls of one buyer on two different          *)
(* listings never both pass the funds check when the balance does not      *)
(* cover the sum of the two prices.                                        *)
(***************************************************************************)
C5_DebitIsTheCheck ==
    \A t1, t2 \in Threads :
        (/\ t1 # t2 /\ BuyAdmitted(t1) /\ BuyAdmitted(t2)
         /\ th[t1].user = th[t2].user
         /\ th[t1].aid # th[t2].aid)
        => th[t1].price + th[t2].price <= users[th[t1].user]["gold"]

(***************************************************************************)
(* C6.  Every account's gold balance is non-negative in every reachable    *)
(* state, under any interleaving of buyNow, shop purchases and             *)
(* administrative adjustments.                                             *)
(***************************************************************************)
C6_GoldNonNegative == \A u \in Users : users[u]["gold"] >= 0

\* a buyNow at a negative price has passed its checks, and an adjustment below
\* zero has been computed
C6_Witness ==
    /\ \E t \in Threads : BuyAdmitted(t) /\ th[t].price < 0
    /\ \E t \in Threads :
          th[t].pc = "admin_gold_1767" /\ th[t].g1 + th[t].args.amount < 0

(***************************************************************************)
(* C7.  A gold debit that exceeds the account's current balance is         *)
(* rejected with InsufficientFunds and leaves the balance unchanged: an    *)
(* administrative adjustment by a negative amount larger than the balance  *)
(* is answered so, and does not change the balance.                        *)
(***************************************************************************)
C7_OverdraftRejected ==
    [][\A t \in Threads :
          (/\ th[t].pc = "admin_gold_1767"
           /\ th'[t].pc = "done"
           /\ th[t].args.amount < 0
           /\ users[th[t].user]["gold"] + th[t].args.amount < 0)
          => /\ th'[t].res = "NoFunds"
             /\ users'[th[t].user]["gold"] = users[th[t].user]["gold"]]_vars

Locked(u, uid) == HHas(equips[<<u, uid>>], "locked")
\* the slots of u that hold uid
SlotsOf(u, uid) == {sl \in DOMAIN equip_slot(u) : equip_slot(u)[sl] = uid}
\* the open listings of u that name uid
ListingsOf(u, uid) == {aid \in EquipListings(uid) : auctions[aid]["seller"] = u}

(***************************************************************************)
(* C8.  Lock coherence: whenever no handler is mid-execution, an equipment *)
(* instance is locked if and only if it is either equipped in exactly one  *)
(* slot or referenced by exactly one open listing, and not both.           *)
(***************************************************************************)
C8_LockCoherence ==
    Quiescent =>
        \A u \in Users, uid \in Uids :
            HExists(equips[<<u, uid>>]) =>
                (Locked(u, uid) <=>
                    \/ Cardinality(SlotsOf(u, uid)) = 1 /\ ListingsOf(u, uid) = {}
                    \/ SlotsOf(u, uid) = {} /\ Cardinality(ListingsOf(u, uid)) = 1)

(***************************************************************************)
(* C9.  An equipment instance is never at once equipped and listed:        *)
(* listing an equipped instance and equipping a listed instance both fail. *)
(***************************************************************************)
C9_NotEquippedAndListed ==
    Quiescent =>
        \A u \in Users, uid \in Uids : ~(SlotsOf(u, uid) # {} /\ ListingsOf(u, uid) # {})

(***************************************************************************)
(* C10.  Each equipment uid is referenced by at most one open listing: a   *)
(* second create for an instance that is already listed is rejected.       *)
(***************************************************************************)
C10_ListedOnce == \A uid \in Uids : Cardinality(EquipListings(uid)) <= 1


(***************************************************************************)
(* C11: over the life of a listing current_price never decreases, under    *)
(* any interleaving of concurrent bids: no step lowers the current_price   *)
(* of a listing record.                                                    *)
(***************************************************************************)
C11_PriceNonDecreasing ==
    [][\A aid \in AuctionIds :
          (HHas(auctions[aid], "current_price") /\ HHas(auctions'[aid], "current_price"))
              => auctions'[aid]["current_price"] >= auctions[aid]["current_price"]]_vars

IsSold(aid) == HHas(auctions[aid], "status") /\ auctions[aid]["status"] = "sold"

\* the listing aid has been stored and its record removed since (a cancel deletes
\* the record where the claim has it marked cancelled)
Removed(aid) ==
    /\ aid <= nextId
    /\ ~HExists(auctions[aid])
    /\ \A t \in Threads : th[t].pc = "create_1508" => th[t].aid # aid

(***************************************************************************)
(* C12: sold and cancelled are terminal: once a listing has been sold no   *)
(* later request changes its record, and once it has been cancelled no     *)
(* later request, in any interleaving, recreates its record.               *)
(***************************************************************************)
C12_SoldIsTerminal ==
    [][\A aid \in AuctionIds :
          /\ IsSold(aid) => auctions'[aid] = auctions[aid]
          /\ Removed(aid) => ~HExists(auctions'[aid])]_vars

\* thread t returns from a bid with a rejection in this step
BidRejected(t) ==
    /\ th[t] # th'[t]
    /\ th'[t].pc = "done" /\ th'[t].op = "bid" /\ th'[t].res # "ok"

(***************************************************************************)
(* C13: a bid is accepted only if the listing it reads is open, the bidder *)
(* is not its seller and the amount is more than its current_price (the    *)
(* step that lets the bid past line 1530), and only if the gold it reads   *)
(* covers the amount (the step that lets it past line 1540); the step that *)
(* rejects a bid leaves every listing as it was.                           *)
(***************************************************************************)
C13_BidChecks ==
    [][\A t \in Threads :
          /\ (Begin(t) /\ th'[t].pc = "bid_1540") =>
                LET a == auctions[th'[t].aid] IN
                /\ IsOpen(th'[t].aid)
                /\ a["seller"] # th'[t].user
                /\ th'[t].args.amount > a["current_price"]
          /\ (th[t].pc = "bid_1540" /\ th'[t].pc = "bid_1545") =>
                users[th[t].user]["gold"] >= th[t].args.amount
          /\ BidRejected(t) => auctions' = auctions]_vars

\* a bid for more than the bidder's gold has been rejected
C13_Witness ==
    \E t \in Threads : th[t].pc = "done" /\ th[t].op = "bid" /\ th[t].res = "NoFunds"

\* thread t takes a step of a bid request
BidStep(t) ==
    /\ th[t] # th'[t]
    /\ \/ th[t].pc \in {"bid_1540", "bid_1545", "bid_1546"}
       \/ Begin(t) /\ th'[t].op = "bid"

BidFields == {"current_price", "current_bidder"}

(***************************************************************************)
(* C14: a bid changes nothing but the listing's current_price and          *)
(* current_bidder: every step of a bid request leaves gold, inventories,   *)
(* equipment, slots and the open index alone, and every other field of     *)
(* every listing (status among them) as it was.                            *)
(***************************************************************************)
C14_BidFrame ==
    [][\A t \in Threads :
          BidStep(t) =>
              /\ UNCHANGED <<users, inventory, equips, slots, openIdx, nextId>>
              /\ \A aid \in AuctionIds :
                    /\ DOMAIN auctions'[aid] \ BidFields = DOMAIN auctions[aid] \ BidFields
                    /\ \A f \in DOMAIN auctions[aid] \ BidFields :
                          auctions'[aid][f] = auctions[aid][f]]_vars

\* a bid has succeeded and stands on its listing
C14_Witness ==
    \E t \in Threads :
        /\ th[t].pc = "done" /\ th[t].op = "bid" /\ th[t].res = "ok"
        /\ \E aid \in AuctionIds :
              IsOpen(aid) /\ auctions[aid]["current_bidder"] # ""
                          /\ auctions[aid]["current_price"] > auctions[aid]["start_price"]

(***************************************************************************)
(* C15: buyNow is rejected when the buyer is the seller or when the        *)
(* listing has no buyout price: no such request gets past the checks of    *)
(* api_auction_buy to the settlement.                                      *)
(***************************************************************************)
C15_BuyNowNeedsBuyout ==
    \A t \in Threads :
        BuyAdmitted(t) => th[t].a["seller"] # th[t].user /\ th[t].a["buyout_price"] # 0

\* thread t's buy request has passed its checks on a listing with a buyout price
BuyNowAdmitted(t) == BuyAdmitted(t) /\ th[t].a["buyout_price"] # 0

(***************************************************************************)
(* C16: a buyNow on an open listing with a buyout price, by a non-seller   *)
(* with enough gold, succeeds: the request that has passed the checks,     *)
(* while no other request is in progress, answers success and leaves the   *)
(* listing marked sold and out of the open index.                          *)
(***************************************************************************)
C16_BuyNowSettles ==
    [][\A t \in Threads :
          (/\ BuyNowAdmitted(t) /\ th'[t].pc = "done"
           /\ \A x \in Threads \ {t} : Begin(x)) =>
              /\ th'[t].res = "ok"
              /\ IsSold(th[t].aid)'
              /\ th[t].aid \notin ZMembers(openIdx')]_vars

\* thread t's cancel request is past its checks
Cancelling(t) == th[t].pc \in {"cancel_1646", "cancel_1652", "cancel_1653"}

(***************************************************************************)
(* C17: a cancel by a caller who is not the listing's seller (no session   *)
(* carries elevated privilege) is rejected and changes nothing: only the   *)
(* seller's cancel gets past the checks, and the step that answers         *)
(* Forbidden leaves the listings, the open index, the inventories and the  *)
(* equipment as they were.                                                 *)
(***************************************************************************)
C17_CancelBySellerOnly ==
    [][\A t \in Threads :
          /\ Cancelling(t)' => th'[t].user = th'[t].a["seller"]
          /\ (th'[t] # th[t] /\ th'[t].pc = "done" /\ th'[t].op = "cancel"
                /\ th'[t].res = "Forbidden")
                => UNCHANGED <<auctions, openIdx, inventory, equips, users, slots>>]_vars

\* a cancel has been refused while the listing it named is still open
C17_Witness ==
    \E t \in Threads :
        /\ th[t].pc = "done" /\ th[t].op = "cancel" /\ th[t].res = "Forbidden"
        /\ \E aid \in AuctionIds : IsOpen(aid) /\ aid \in ZMembers(openIdx)

(***************************************************************************)
(* C18: the seller's cancel of a listing whose current_bidder is set is    *)
(* rejected: no cancel gets past its checks on a listing that has a bid.   *)
(***************************************************************************)
C18_HasBidsBlocksCancel ==
    \A t \in Threads : Cancelled(t) => th[t].a["current_bidder"] = ""

(***************************************************************************)
(* C19: a successful cancel leaves the listing's record in existence with  *)
(* status = cancelled.                                                     *)
(***************************************************************************)
C19_CancelKeepsRecord ==
    \A t \in Threads :
        Cancelled(t) => /\ HHas(auctions[th[t].aid], "status")
                        /\ auctions[th[t].aid]["status"] = "cancelled"

\* thread t's cancel of an equipment listing has released the instance
Released(t) ==
    /\ th[t].pc \in {"cancel_1652", "cancel_1653"}
    /\ th[t].a["type"] = "equip"

(***************************************************************************)
(* C20: listing a generated piece of equipment and cancelling the listing  *)
(* gives it back as it was: no step of a create or a cancel changes any    *)
(* field of an equipment record but its lock (uid, rarity, enhancement     *)
(* level and the six attributes stay), and the step by which a cancel      *)
(* releases the instance leaves it with the seller unlocked, the record    *)
(* generation wrote.                                                       *)
(***************************************************************************)
C20_ListCancelRoundTrip ==
    [][/\ \A k \in Users \X Uids : HDel(equips'[k], "locked") = HDel(equips[k], "locked")
       /\ \A t \in Threads :
             (th[t].pc = "cancel_1646" /\ Released(t)') =>
                 LET k == <<th[t].a["seller"], th[t].a["uid"]>> IN
                 /\ equips'[k] \in GeneratedEquipment
                 /\ ~HHas(equips'[k], "locked")]_vars

\* the cancel of a listing of a gold piece has released it: the seller holds it unlocked
C20_Witness ==
    \E t \in Threads :
        /\ Released(t) /\ th[t].pc = "cancel_1653"
        /\ LET k == <<th[t].a["seller"], th[t].a["uid"]>> IN
           /\ HExists(equips[k]) /\ ~HHas(equips[k], "locked")
           /\ equips[k]["rarity"] = "gold"
        /\ EquipListings(th[t].a["uid"]) = {}

(***************************************************************************)
(* C21: the forced removal of an open listing, stack or equipment,         *)
(* completes: while every listing record there is is an open listing, no   *)
(* forced removal ends in an error.                                        *)
(***************************************************************************)
C21_ForceRemoveCompletes ==
    [][\A t \in Threads :
          (/\ th'[t] # th[t]
           /\ th'[t].pc = "done" /\ th'[t].op = "admin_remove"
           /\ \A aid \in AuctionIds : HExists(auctions[aid]) => IsOpen(aid))
          => th'[t].res \in {"ok", "NotFound"}]_vars

(***************************************************************************)
(* C22: every persisted listing has start_price > 0, current_price >=      *)
(* start_price and a buyout_price that is unset or >= start_price.         *)
(***************************************************************************)
C22_ListingPrices ==
    \A aid \in AuctionIds :
        ({"start_price", "current_price", "buyout_price"} \subseteq DOMAIN auctions[aid]) =>
            LET a == auctions[aid] IN
            /\ a["start_price"] > 0
            /\ a["current_price"] >= a["start_price"]
            /\ a["buyout_price"] = 0 \/ a["buyout_price"] >= a["start_price"]

(***************************************************************************)
(* C24: a stack listing or a shop purchase with a zero or negative qty is  *)
(* rejected as an invalid argument: no such request gets past the checks   *)
(* to the writes of the stock or of the gold.                              *)
(***************************************************************************)
C24_BadQuantityRejected ==
    \A t \in Threads : th[t].pc \in {"create_1466", "shop_1378"} => th[t].args.qty > 0

\* thread t's create holds an allocated auction_id
HoldsId(t) == th[t].pc \in {"create_1508", "create_1509_time", "create_1509"}

(***************************************************************************)
(* C25: auction ids are unique and strictly increasing in allocation       *)
(* order, however the creates interleave: the id a create obtains is above *)
(* every id handed out before (those of the records there are and those    *)
(* other creates hold), and a create writes its record where none is.      *)
(***************************************************************************)
C25_AuctionIdsUnique ==
    [][\A t \in Threads :
          /\ (th[t].pc = "create_1490" /\ th'[t].pc = "create_1508") =>
                /\ th'[t].aid > nextId /\ nextId' = th'[t].aid
                /\ \A x \in Threads \ {t} : HoldsId(x) => th[x].aid < th'[t].aid
                /\ \A aid \in AuctionIds : HExists(auctions[aid]) => aid < th'[t].aid
          /\ (th[t].pc = "create_1508" /\ th'[t].pc = "create_1509_time") =>
                ~HExists(auctions[th[t].aid])]_vars

\* two creates hold their ids at once, and the ids differ
C25_Witness ==
    \E t1, t2 \in Threads :
        /\ t1 # t2 /\ th[t1].pc = "create_1508" /\ th[t2].pc = "create_1508"
        /\ th[t1].aid # th[t2].aid

\* thread t's attempt reads the instance it found to exist (get_equipment's hgetall)
EnhanceReads(t) == th[t].pc = "enhance_396" /\ th'[t] # th[t]

\* thread t's attempt passes the level check and goes on to the roll
AttemptAdmitted(t) == th[t].pc = "enhance_396" /\ th'[t].pc = "enhance_504"

(***************************************************************************)
(* C27: an enhancement attempt on an instance at level 20 or higher is     *)
(* rejected with AtMaxLevel, and neither the step that reads the level nor *)
(* the rest of the rejected request changes the instance or the caller's   *)
(* protection tokens.                                                      *)
(***************************************************************************)
C27_AtMaxLevelRejected ==
    [][\A t \in Threads :
          /\ EnhanceReads(t) =>
                LET h == equips[<<th[t].user, th[t].args.uid>>] IN
                (HHas(h, "enhance") /\ h["enhance"] >= MaxLevel) =>
                    /\ th'[t].pc = "enhance_2043" /\ th'[t].res = "AtMaxLevel"
                    /\ UNCHANGED <<equips, equip_guard>>
          /\ (th[t].op = "enhance" /\ th[t].res = "AtMaxLevel"
              /\ th[t].pc \notin {"idle", "done"} /\ th'[t] # th[t]) =>
                UNCHANGED <<equips, equip_guard>>]_vars

\* an attempt on an instance at level 20 has been rejected
C27_Witness ==
    \E t \in Threads :
        /\ th[t].pc = "done" /\ th[t].op = "enhance" /\ th[t].res = "AtMaxLevel"
        /\ \E u \in Users, uid \in Uids :
              HHas(equips[<<u, uid>>], "enhance") /\ equips[<<u, uid>>]["enhance"] = MaxLevel

\* the level an unprotected failure at level L leaves (L below 19)
LevelAfterFailure(L) ==
    IF L <= 5 THEN L
    ELSE IF L <= 10 THEN L - 1
    ELSE IF L <= 15 THEN L - 2
    ELSE 0

\* thread t's failed, unprotected attempt takes its last step inside the handler
UnprotectedFailureLands(t) ==
    /\ th[t].op = "enhance"
    /\ th[t].pc \in {"enhance_504", "enhance_552", "enhance_555", "enhance_557"}
    /\ th'[t].pc = "enhance_2043"
    /\ ~th[t].args.success /\ ~th'[t].args.guard_active

(***************************************************************************)
(* C28: an unprotected failed attempt is decided by L, the level the       *)
(* attempt read, alone: 0..5 leaves the level, 6..10 gives L-1, 11..15     *)
(* gives L-2, 16..18 gives 0, 19 destroys the instance; the step leaves    *)
(* every other field of the record, the six attributes included, as it is. *)
(***************************************************************************)
C28_FailureByLevel ==
    [][\A t \in Threads :
          UnprotectedFailureLands(t) =>
              LET L == th[t].a["enhance"]
                  k == <<th[t].user, th[t].args.uid>>
              IN  equips'[k] = IF L = 19 THEN EmptyHash
                               ELSE IF L <= 5 THEN equips[k]
                               ELSE HSet(equips[k], "enhance", LevelAfterFailure(L))]_vars

\* an unprotected failure at level 19 has destroyed the instance
C28_Witness ==
    \E t \in Threads :
        /\ th[t].pc = "enhance_2043" /\ th[t].res = "explode"
        /\ th[t].a["enhance"] = 19 /\ ~th[t].args.guard_active
        /\ ~HExists(equips[<<th[t].user, th[t].args.uid>>])

(***************************************************************************)
(* C29: under any interleaving of enhancement attempts on an instance that *)
(* starts at level 0 its level stays within 0..20, and the write of a      *)
(* successful attempt sets the level to the level the attempt read, plus   *)
(* one.                                                                    *)
(***************************************************************************)
C29_LevelInRange ==
    [][/\ \A k \in Users \X Uids :
             HHas(equips'[k], "enhance") => equips'[k]["enhance"] \in 0..MaxLevel
       /\ \A t \in Threads :
             (th[t].pc = "enhance_531" /\ th'[t].pc = "enhance_2043") =>
                 equips'[<<th[t].user, th[t].args.uid>>]["enhance"] = th[t].a["enhance"] + 1]_vars

\* two attempts are in progress at once, one of them about to write level 20
C29_Witness ==
    \E t1, t2 \in Threads :
        /\ t1 # t2
        /\ th[t1].pc = "enhance_531" /\ th[t1].a["enhance"] = MaxLevel - 1
        /\ th[t2].pc \in {"enhance_396", "enhance_504", "enhance_510", "enhance_531"}

(***************************************************************************)
(* C30: a caller's count of protection tokens never drops below zero.      *)
(***************************************************************************)
C30_TokensNonNegative ==
    \A u \in Users : HHas(equip_guard, u) => equip_guard[u] >= 0

\* the tokens of account u, zero where the key does not exist
Tokens(g, u) == IF HHas(g, u) THEN g[u] ELSE 0

(***************************************************************************)
(* C31: a protection token is consumed only by an attempt whose failure    *)
(* it downgrades: a step that lowers an account's token count is a step of *)
(* that account's failed attempt with protection requested on a level of   *)
(* 16 or more, so a successful attempt and an attempt below level 16 leave *)
(* the count as it was.                                                    *)
(***************************************************************************)
C31_TokenOnlyOnDowngrade ==
    [][\A u \in Users :
          Tokens(equip_guard', u) < Tokens(equip_guard, u) =>
              \E t \in Threads :
                  /\ th[t].op = "enhance" /\ th[t].user = u /\ th'[t] # th[t]
                  /\ th[t].args.use_guard /\ ~th[t].args.success
                  /\ th[t].a["enhance"] >= GuardLevel]_vars

\* a request has returned the destroyed result of an explosion
Destroyed == \E x \in Threads : th[x].pc = "done" /\ th[x].res = "explode"

\* thread t takes the first step of an enhance, wear or create request on an
\* instance: get_equipment's r.exists of an enhance or wear, the first command of a
\* create
OperationBegins(t) ==
    /\ th'[t] # th[t]
    /\ \/ th[t].pc \in {"enhance_491", "wear_426"}
       \/ Begin(t) /\ th'[t].op = "create"

(***************************************************************************)
(* C32: an instance is deleted by an enhancement attempt only when the     *)
(* attempt failed unprotected on a pre-attempt level of 19, the attempt    *)
(* then returns the destroyed result, and once a request has returned it   *)
(* every enhance, wear and listing request on the uid is answered          *)
(* NotFound.                                                               *)
(***************************************************************************)
C32_ExplosionIsFinal ==
    [][\A t \in Threads :
          /\ (th[t].op = "enhance" /\ th'[t] # th[t]
              /\ \E k \in Users \X Uids : HExists(equips[k]) /\ ~HExists(equips'[k])) =>
                /\ ~th[t].args.success /\ ~th[t].args.guard_active
                /\ th[t].a["enhance"] = MaxLevel - 1
                /\ th'[t].res = "explode"
          /\ (Destroyed /\ OperationBegins(t)) => th'[t].res = "NotFound"]_vars

\* thread t's attempt was not rejected and has finished inside the handler
AttemptDone(t) ==
    th[t].pc = "enhance_2043" /\ th[t].res \in {"ok", "fail", "explode"}

\* success, explosion, protected downgrade or ordinary failure
OutcomeOf(t) ==
    IF th[t].args.success THEN "success"
    ELSE IF th[t].res = "explode" THEN "explosion"
    ELSE IF th[t].args.guard_active THEN "protected_downgrade"
    ELSE "failure"

\* what tells the entries of the stream apart: the action and, where there is one, the fail_type
KindOf(ev) ==
    IF HHas(ev.detail, "fail_type") THEN <<ev.action, ev.detail["fail_type"]>> ELSE <<ev.action>>

\* the fields of an entry's detail that name the instance, the levels and the fail_type
LevelFields == {"uid", "old_level", "new_level", "fail_type"}

(***************************************************************************)
(* C33: an enhancement attempt that is not rejected appends exactly one    *)
(* entry to the action stream; the entry carries the pre-attempt level,    *)
(* the post-attempt level and, in a further field, whether a protection    *)
(* token was consumed, and the entry of a protected downgrade is told      *)
(* apart from that of an ordinary failure.                                 *)
(***************************************************************************)
C33_OneAuditEvent ==
    \A t \in Threads :
        AttemptDone(t) =>
            /\ Len(th[t].events) = 1
            /\ LET ev == th[t].events[1] IN
               /\ HHas(ev.detail, "old_level") /\ ev.detail["old_level"] = th[t].a["enhance"]
               /\ HHas(ev.detail, "new_level")
               /\ DOMAIN ev.detail \ LevelFields # {}
               /\ OutcomeOf(t) = "protected_downgrade" => KindOf(ev) # <<"enhance_fail", "drop">>

(***************************************************************************)
(* C34: after any sequence of wear and unwear requests, an account's slot  *)
(* assignment names each equipment uid in at most one slot (a slot, a      *)
(* field of one hash, holds at most one uid).                              *)
(***************************************************************************)
C34_OneSlotPerInstance ==
    \A u \in Users, uid \in Uids : Cardinality(SlotsOf(u, uid)) <= 1

\* the power computed from u's current stats; -1 where the computation raises
CurrentPower(u) ==
    LET fs == compute_final_stats(u) IN
    IF fs.st = "ok" /\ Attrs \subseteq DOMAIN fs.total THEN compute_power(fs.total) ELSE -1

(***************************************************************************)
(* C35: whenever no request is in progress, an account whose power has     *)
(* been published, or whose power is no longer that of a new account, has  *)
(* the power computed from its current stats published: every wear,        *)
(* unwear and gain of experience is followed by the recomputation.         *)
(***************************************************************************)
C35_PowerPublished ==
    Quiescent =>
        \A u \in Users :
            (HHas(powerRank, u) \/ CurrentPower(u) # compute_power(BaseStats)) =>
                HHas(powerRank, u) /\ powerRank[u] = CurrentPower(u)

\* this step creates the record of the instance k, which did not exist
RecordAppears(k) == ~HExists(equips[k]) /\ HExists(equips'[k])

(***************************************************************************)
(* C36: equipment records come into existence only by generate_equipment   *)
(* (root's grant) or by a settlement moving an existing instance to its    *)
(* buyer: no other step, an administrative edit or a settlement for a      *)
(* missing uid included, creates a record for a uid that does not exist.   *)
(* No request reaches the settlement's move (line 1598), so a record       *)
(* appears only in the step of a grant.                                    *)
(***************************************************************************)
C36_RecordsOnlyGenerated ==
    [][\A k \in Users \X Uids :
          RecordAppears(k) =>
              \E t \in Threads : th'[t] # th[t] /\ th'[t].op = "admin_give_equip"]_vars

\* the ids of the listings the query returns
Listed == {list_open_auctions[i] : i \in 1..Len(list_open_auctions)}

(***************************************************************************)
(* C37: whenever no request is in progress, the open-listings index holds  *)
(* an auction id exactly when the listing's record exists with status      *)
(* open, and the listing query returns exactly the open listings.          *)
(***************************************************************************)
C37_IndexMatchesOpen ==
    Quiescent =>
        /\ ZMembers(openIdx) = {aid \in AuctionIds : IsOpen(aid)}
        /\ Listed = {aid \in AuctionIds : IsOpen(aid)}

\* the level and the six attributes of a record
NumericPart(h) == [x \in NumericEquipFields \cap DOMAIN h |-> h[x]]

(***************************************************************************)
(* C38: an enhancement attempt on an instance held by an open listing      *)
(* (locked) is rejected, and while an instance stays locked no step        *)
(* changes its level or attributes or destroys it, so the buyer receives   *)
(* it as it was listed.                                                    *)
(***************************************************************************)
C38_EscrowUntouched ==
    [][/\ \A t \in Threads :
             AttemptAdmitted(t) => ~Locked(th[t].user, th[t].args.uid)
       /\ \A k \in Users \X Uids :
             HHas(equips[k], "locked") =>
                 HExists(equips'[k]) /\ NumericPart(equips'[k]) = NumericPart(equips[k])]_vars

(***************************************************************************)
(* C39: whenever no request is in progress, every uid in an account's slot *)
(* assignment names an existing instance of that account, and every open   *)
(* equipment listing names an existing instance of its seller.             *)
(***************************************************************************)
C39_NoDanglingUid ==
    Quiescent =>
        /\ \A u \in Users : \A sl \in DOMAIN equip_slot(u) : HExists(equips[<<u, equip_slot(u)[sl]>>])
        /\ \A aid \in AuctionIds :
              (IsOpen(aid) /\ auctions[aid]["type"] = "equip") =>
                  HExists(equips[<<auctions[aid]["seller"], auctions[aid]["uid"]>>])

\* the bearer tokens that stand for account u
ValidTokens(u) == {tok \in DOMAIN token : token[tok] = u}

(***************************************************************************)
(* C40: at every point at most one session token is valid for an account,  *)
(* and a login for an account that has a session is refused, also when two *)
(* logins for the account run concurrently.                                *)
(***************************************************************************)
C40_OneSession == \A u \in Users : Cardinality(ValidTokens(u)) <= 1

============================================================================
